---- MODULE Spec2Model ----
(***************************************************************************)
(* Replication path of the key/value server: the master's connection       *)
(* handler (SET propagation, PSYNC, WAIT), the replica's processing of the *)
(* master stream, and the wire codec both sides use.                       *)
(*                                                                         *)
(* Bytes are integers 0..255 and byte strings are sequences of them.  All  *)
(* text the model sends is ASCII, so the UTF-8 checks of the code succeed. *)
(***************************************************************************)
EXTENDS Integers, Sequences, FiniteSets, TLC

(***************************************************************************)
(* Byte-string literals used by the codec and the command model.           *)
(***************************************************************************)
CRLF == <<13, 10>>

B_PING == <<80, 73, 78, 71>>
B_ECHO == <<69, 67, 72, 79>>
B_SET == <<83, 69, 84>>
B_GET == <<71, 69, 84>>
B_px == <<112, 120>>
B_REPLCONF == <<82, 69, 80, 76, 67, 79, 78, 70>>
B_listening_port == <<108, 105, 115, 116, 101, 110, 105, 110, 103, 45, 112, 111, 114, 116>>
B_capa == <<99, 97, 112, 97>>
B_GETACK == <<71, 69, 84, 65, 67, 75>>
B_ACK == <<65, 67, 75>>
B_star == <<42>>
B_PSYNC == <<80, 83, 89, 78, 67>>
B_qmark == <<63>>
B_minus1 == <<45, 49>>
B_OK == <<79, 75>>
B_FULLRESYNC == <<70, 85, 76, 76, 82, 69, 83, 89, 78, 67>>

b_ping == <<112, 105, 110, 103>>
b_echo == <<101, 99, 104, 111>>
b_set == <<115, 101, 116>>
b_get == <<103, 101, 116>>
b_replconf == <<114, 101, 112, 108, 99, 111, 110, 102>>
b_getack == <<103, 101, 116, 97, 99, 107>>
b_ack == <<97, 99, 107>>
b_psync == <<112, 115, 121, 110, 99>>
b_wait == <<119, 97, 105, 116>>
B_INFO == <<73, 78, 70, 79>>
B_XREAD == <<88, 82, 69, 65, 68>>
b_info == <<105, 110, 102, 111>>
b_replication == <<114, 101, 112, 108, 105, 99, 97, 116, 105, 111, 110>>
b_config == <<99, 111, 110, 102, 105, 103>>
b_keys == <<107, 101, 121, 115>>
b_type == <<116, 121, 112, 101>>
b_xadd == <<120, 97, 100, 100>>
b_xrange == <<120, 114, 97, 110, 103, 101>>
b_xread == <<120, 114, 101, 97, 100>>
b_block == <<98, 108, 111, 99, 107>>
b_streams == <<115, 116, 114, 101, 97, 109, 115>>

\* MasterInfo::new: the fixed 40-character replication id
REPL_ID == <<56, 51, 55, 49, 98, 52, 102, 98, 49, 49, 53, 53, 98, 55, 49, 102, 52, 97, 48, 52,
             100, 51, 101, 49, 98, 99, 51, 101, 49, 56, 99, 52, 97, 57, 57, 48, 97, 101, 101, 98>>

\* the empty snapshot the master ships on PSYNC (88 bytes)
EMPTY_RDB == <<82, 69, 68, 73, 83, 48, 48, 49, 49, 250, 9, 114, 101, 100, 105, 115, 45, 118,
               101, 114, 5, 55, 46, 50, 46, 48, 250, 10, 114, 101, 100, 105, 115, 45, 98, 105,
               116, 115, 192, 64, 250, 5, 99, 116, 105, 109, 101, 194, 109, 8, 188, 101, 250, 8,
               117, 115, 101, 100, 45, 109, 101, 109, 194, 176, 196, 16, 0, 250, 8, 97, 111, 102,
               45, 98, 97, 115, 101, 192, 0, 255, 240, 110, 59, 254, 192, 255, 90, 162>>

(***************************************************************************)
(* Generic helpers on sequences.                                           *)
(***************************************************************************)
None == [ok |-> FALSE]

\* a let binding: the one element of S
TheOne(S) == CHOOSE x \in S : TRUE

Drop(s, n) == SubSeq(s, n + 1, Len(s))

Take(s, n) == SubSeq(s, 1, n)

IsPrefix(s, t) == Len(s) <= Len(t) /\ \A i \in 1..Len(s) : s[i] = t[i]

RECURSIVE Concat(_)
Concat(ss) == IF Len(ss) = 0 THEN <<>> ELSE Head(ss) \o Concat(Tail(ss))

RECURSIVE SumSeq(_)
SumSeq(ns) == IF Len(ns) = 0 THEN 0 ELSE Head(ns) + SumSeq(Tail(ns))

\* position of the first element equal to b, 0 if there is none
Position(s, b) ==
    TheOne({ IF \E i \in 1..Len(v) : v[i] = b
             THEN CHOOSE i \in 1..Len(v) : v[i] = b /\ \A j \in 1..(i - 1) : v[j] # b
             ELSE 0 : v \in {s} })

ToAsciiLowercase(s) == [i \in 1..Len(s) |-> IF s[i] >= 65 /\ s[i] <= 90 THEN s[i] + 32 ELSE s[i]]

(***************************************************************************)
(* utils.rs                                                                *)
(***************************************************************************)
\* usize / u64 / i64 to_string for the non-negative numbers the model sends
RECURSIVE NatToBytes(_)
NatToBytes(n) == IF n < 10 THEN <<48 + n>> ELSE NatToBytes(n \div 10) \o <<48 + (n % 10)>>

RECURSIVE DigitsValue(_)
DigitsValue(s) == IF Len(s) = 0 THEN 0 ELSE 10 * DigitsValue(Take(s, Len(s) - 1)) + (s[Len(s)] - 48)

\* str::parse::<usize>: an optional '+' and at least one decimal digit
bytes2usize(bytes) ==
    LET digits == IF Len(bytes) > 0 /\ bytes[1] = 43 THEN Tail(bytes) ELSE bytes
    IN  IF Len(digits) > 0 /\ \A i \in 1..Len(digits) : digits[i] >= 48 /\ digits[i] <= 57
        THEN [ok |-> TRUE, n |-> DigitsValue(digits)]
        ELSE None

\* splitn(2, '\r'), then the rest must start with '\n'
split_by_clrf(bytes) ==
    TheOne({ IF i = 0 THEN None
             ELSE TheOne({ IF Len(remaining) = 0 \/ remaining[1] # 10 THEN None
                           ELSE [ok |-> TRUE, data |-> Take(bytes, i - 1),
                                 rest |-> Tail(remaining)] : remaining \in {Drop(bytes, i)} })
             : i \in {Position(bytes, 13)} })

(***************************************************************************)
(* resp.rs: protocol values are records tagged by t.                       *)
(***************************************************************************)
SimpleString(s) == [t |-> "SimpleString", s |-> s]
BulkString(b) == [t |-> "BulkString", b |-> b]
Array(a) == [t |-> "Array", a |-> a]
NullBulkString == [t |-> "NullBulkString"]
Integer(i) == [t |-> "Integer", i |-> i]
SimpleError(s) == [t |-> "SimpleError", s |-> s]

\* RespValue::to_bytes
RECURSIVE RespToBytes(_)
RespToBytes(v) ==
    CASE v.t = "SimpleString" -> <<43>> \o v.s \o CRLF
      [] v.t = "BulkString" -> <<36>> \o NatToBytes(Len(v.b)) \o CRLF \o v.b \o CRLF
      [] v.t = "Array" ->
            <<42>> \o NatToBytes(Len(v.a)) \o CRLF
                   \o Concat([i \in 1..Len(v.a) |-> RespToBytes(v.a[i])])
      [] v.t = "NullBulkString" -> <<36, 45, 49, 13, 10>>
      [] v.t = "Integer" ->
            <<58>> \o (IF v.i < 0 THEN <<45>> \o NatToBytes(0 - v.i) ELSE NatToBytes(v.i)) \o CRLF
      [] v.t = "SimpleError" -> <<45>> \o v.s \o CRLF

\* str::parse::<i64>: an optional sign and at least one decimal digit
ParseI64(bytes) ==
    LET neg == Len(bytes) > 0 /\ bytes[1] = 45
    IN  IF neg /\ Len(bytes) > 1 /\ bytes[2] = 43 THEN None
        ELSE TheOne({ IF r.ok THEN [ok |-> TRUE, n |-> IF neg THEN 0 - r.n ELSE r.n] ELSE None
                      : r \in {bytes2usize(IF neg THEN Tail(bytes) ELSE bytes)} })

\* decode: one value from the front of bytes, and the remaining bytes
RECURSIVE decode(_)
RECURSIVE DecodeElems(_, _, _)
DecodeElems(n, bytes, acc) ==
    IF n = 0 THEN [ok |-> TRUE, val |-> Array(acc), rest |-> bytes]
    ELSE TheOne({ IF r.ok THEN DecodeElems(n - 1, r.rest, Append(acc, r.val)) ELSE None
                  : r \in {decode(bytes)} })

decode(buf) ==
    TheOne({
    IF Len(bytes) = 0 THEN None
    ELSE CASE bytes[1] = 43 ->
                TheOne({ IF r.ok
                         THEN [ok |-> TRUE, val |-> SimpleString(r.data), rest |-> r.rest]
                         ELSE None : r \in {split_by_clrf(Tail(bytes))} })
           [] bytes[1] = 36 ->
                TheOne({ IF ~l.ok THEN None
                         ELSE TheOne({ IF ~length.ok THEN None
                                       ELSE TheOne({ IF ~d.ok THEN None
                                                     ELSE IF Len(d.data) # length.n THEN None
                                                     ELSE [ok |-> TRUE,
                                                           val |-> BulkString(d.data),
                                                           rest |-> d.rest]
                                                     : d \in {split_by_clrf(l.rest)} })
                                       : length \in {bytes2usize(l.data)} })
                         : l \in {split_by_clrf(Tail(bytes))} })
           [] bytes[1] = 42 ->
                TheOne({ IF ~l.ok THEN None
                         ELSE TheOne({ IF ~vec_length.ok THEN None
                                       ELSE DecodeElems(vec_length.n, l.rest, <<>>)
                                       : vec_length \in {bytes2usize(l.data)} })
                         : l \in {split_by_clrf(Tail(bytes))} })
           [] bytes[1] = 58 ->
                TheOne({ IF ~r.ok THEN None
                         ELSE TheOne({ IF value.ok
                                       THEN [ok |-> TRUE, val |-> Integer(value.n),
                                             rest |-> r.rest]
                                       ELSE None : value \in {ParseI64(r.data)} })
                         : r \in {split_by_clrf(Tail(bytes))} })
           [] OTHER -> None
    : bytes \in {buf} })

\* decode_array_of_bulkstrings
decode_array_of_bulkstrings(bytes) ==
    TheOne({ IF ~r.ok THEN None
             ELSE IF r.val.t # "Array" THEN None
             ELSE IF \E i \in 1..Len(r.val.a) : r.val.a[i].t # "BulkString" THEN None
             ELSE [ok |-> TRUE, args |-> [i \in 1..Len(r.val.a) |-> r.val.a[i].b],
                   rest |-> r.rest]
             : r \in {decode(bytes)} })

(***************************************************************************)
(* command.rs: commands are records tagged by v.  An Option is a record    *)
(* with the flag some; a Duration is its number of milliseconds.           *)
(***************************************************************************)
NoneOpt == [some |-> FALSE]
Some(x) == [some |-> TRUE, x |-> x]

Ping == [v |-> "Ping"]
Echo(val) == [v |-> "Echo", val |-> val]
Set(key, value, px) == [v |-> "Set", key |-> key, value |-> value, px |-> px]
Get(key) == [v |-> "Get", key |-> key]
ReplConf(arg) == [v |-> "ReplConf", arg |-> arg]
ListeningPort(port) == [a |-> "ListeningPort", port |-> port]
Capa(capas) == [a |-> "Capa", capas |-> capas]
GetAck == [a |-> "GetAck"]
Ack(offset) == [a |-> "Ack", offset |-> offset]
PSync(repl_id, repl_offset) == [v |-> "PSync", repl_id |-> repl_id, repl_offset |-> repl_offset]
Wait(repl_ack_num, timeout_dur) ==
    [v |-> "Wait", repl_ack_num |-> repl_ack_num, timeout_dur |-> timeout_dur]

\* db/trie.rs 1: a u64 is KeyChars nibbles wide in the model (16 in the source)
CHAR_BITSIZE == 4
CHARSET_SIZE == 2 ^ CHAR_BITSIZE

\* nibbles of a key
KeyChars == 2

U64_MAX == CHARSET_SIZE ^ KeyChars - 1

\* db/stream.rs: StreamEntryID, its "<millis>-<seq_num>" form, and the ID an
\* XADD asks for (seq_num an Option)
StreamEntryID(millis, seq_num) == [millis |-> millis, seq_num |-> seq_num]

as_bytes(id) == NatToBytes(id.millis) \o <<45>> \o NatToBytes(id.seq_num)

ReqStreamEntryID(millis, seq_num) == Some([millis |-> millis, seq_num |-> seq_num])

XReadStreamArg(key, start) == [key |-> key, start |-> start]

Info(info_arg) == [v |-> "Info", info_arg |-> info_arg]
Replication == "Replication"
ConfigGet(key) == [v |-> "Config", key |-> key]
Keys == [v |-> "Keys"]
LookupType(key) == [v |-> "LookupType", key |-> key]
\* data is the HashMap of the fields: a function from field to value
CmdXAdd(key, entry_id, data) == [v |-> "XAdd", key |-> key, entry_id |-> entry_id, data |-> data]
CmdXRange(key, start, end) == [v |-> "XRange", key |-> key, start |-> start, end |-> end]
CmdXRead(block, streams) == [v |-> "XRead", block |-> block, streams |-> streams]

IsSet(cmd) == cmd.v = "Set"
IsGetAck(cmd) == cmd.v = "ReplConf" /\ cmd.arg.a = "GetAck"
IsAck(cmd) == cmd.v = "ReplConf" /\ cmd.arg.a = "Ack"

\* the argument vector Command::to_bytes builds (the variants the server sends)
CommandArgs(cmd) ==
    CASE cmd.v = "Ping" -> <<B_PING>>
      [] cmd.v = "Echo" -> <<B_ECHO, cmd.val>>
      [] cmd.v = "Set" ->
            <<B_SET, cmd.key, cmd.value>>
                \o (IF cmd.px.some THEN <<B_px, NatToBytes(cmd.px.x)>> ELSE <<>>)
      [] cmd.v = "Get" -> <<B_GET, cmd.key>>
      [] cmd.v = "ReplConf" ->
            (CASE cmd.arg.a = "ListeningPort" ->
                    <<B_REPLCONF, B_listening_port, NatToBytes(cmd.arg.port)>>
               [] cmd.arg.a = "Capa" ->
                    <<B_REPLCONF>>
                        \o Concat([i \in 1..Len(cmd.arg.capas) |-> <<B_capa, cmd.arg.capas[i]>>])
               [] cmd.arg.a = "GetAck" -> <<B_REPLCONF, B_GETACK, B_star>>
               [] cmd.arg.a = "Ack" -> <<B_REPLCONF, B_ACK, NatToBytes(cmd.arg.offset)>>)
      [] cmd.v = "PSync" ->
            <<B_PSYNC,
              IF cmd.repl_id.some THEN cmd.repl_id.x ELSE B_qmark,
              IF cmd.repl_offset.some THEN NatToBytes(cmd.repl_offset.x) ELSE B_minus1>>
      [] cmd.v = "Info" -> <<B_INFO>> \o (IF cmd.info_arg.some THEN <<b_replication>> ELSE <<>>)
      [] cmd.v = "XRead" ->
            <<B_XREAD>>
                \o (IF cmd.block.some THEN <<b_block, NatToBytes(cmd.block.x)>> ELSE <<>>)
                \o <<b_streams>>
                \o [i \in 1..Len(cmd.streams) |-> cmd.streams[i].key]
                \o [i \in 1..Len(cmd.streams) |-> as_bytes(cmd.streams[i].start)]

\* an array of bulk strings, as Command::to_bytes ends and as a client sends a request
ArgsToBytes(args) == RespToBytes(Array([i \in 1..Len(args) |-> BulkString(args[i])]))

\* Command::to_bytes
to_bytes(cmd) == ArgsToBytes(CommandArgs(cmd))

Parsed(cmd, remaining) == [ok |-> TRUE, cmd |-> cmd, remaining |-> remaining]

\* the SET arm of Command::from_bytes
ParseSet(remaining) ==
    IF Len(remaining) < 2 THEN None
    ELSE LET key == remaining[1]
             value == remaining[2]
             r2 == Drop(remaining, 2)
         IN  IF Len(r2) = 0 THEN Parsed(Set(key, value, NoneOpt), r2)
             ELSE IF ToAsciiLowercase(r2[1]) # B_px THEN None
             ELSE IF Len(r2) < 2 THEN None
             ELSE LET px == bytes2usize(r2[2])
                  IN  IF px.ok THEN Parsed(Set(key, value, Some(px.n)), Drop(r2, 2)) ELSE None

\* the loop of the capa arm: every further pair must be "capa" <name>
RECURSIVE ParseCapas(_, _)
ParseCapas(remaining, capas) ==
    IF Len(remaining) = 0 THEN Parsed(ReplConf(Capa(capas)), remaining)
    ELSE IF remaining[1] # B_capa THEN None
    ELSE IF Len(remaining) < 2 THEN None
    ELSE ParseCapas(Drop(remaining, 2), Append(capas, remaining[2]))

\* the REPLCONF arm of Command::from_bytes
ParseReplConf(remaining) ==
    IF Len(remaining) = 0 THEN None
    ELSE LET arg == ToAsciiLowercase(remaining[1])
             r1 == Tail(remaining)
         IN  CASE arg = B_listening_port ->
                    IF Len(r1) = 0 THEN None
                    ELSE LET port == bytes2usize(r1[1])
                         IN  IF port.ok /\ port.n < 65536
                             THEN Parsed(ReplConf(ListeningPort(port.n)), Tail(r1))
                             ELSE None
               [] arg = B_capa ->
                    IF Len(r1) = 0 THEN None ELSE ParseCapas(Tail(r1), <<r1[1]>>)
               [] arg = b_getack ->
                    IF Len(r1) = 0 THEN None
                    ELSE IF r1[1] # B_star THEN None
                    ELSE Parsed(ReplConf(GetAck), Tail(r1))
               [] arg = b_ack ->
                    IF Len(r1) = 0 THEN None
                    ELSE LET offset == bytes2usize(r1[1])
                         IN  IF offset.ok THEN Parsed(ReplConf(Ack(offset.n)), Tail(r1))
                             ELSE None
               [] OTHER -> None

\* the PSYNC arm of Command::from_bytes
ParsePSync(remaining) ==
    IF Len(remaining) < 2 THEN None
    ELSE LET repl_id == IF remaining[1] = B_qmark THEN [ok |-> TRUE, o |-> NoneOpt]
                        ELSE IF Len(remaining[1]) = 40
                             THEN [ok |-> TRUE, o |-> Some(remaining[1])]
                             ELSE None
             off == bytes2usize(remaining[2])
             repl_offset == IF remaining[2] = B_minus1 THEN [ok |-> TRUE, o |-> NoneOpt]
                            ELSE IF off.ok THEN [ok |-> TRUE, o |-> Some(off.n)] ELSE None
         IN  IF repl_id.ok /\ repl_offset.ok
             THEN Parsed(PSync(repl_id.o, repl_offset.o), Drop(remaining, 2))
             ELSE None

\* the WAIT arm of Command::from_bytes
ParseWait(remaining) ==
    IF Len(remaining) < 2 THEN None
    ELSE LET repl_num == bytes2usize(remaining[1])
             timeout_dur == bytes2usize(remaining[2])
         IN  IF repl_num.ok /\ timeout_dur.ok
             THEN Parsed(Wait(repl_num.n, timeout_dur.n), Drop(remaining, 2))
             ELSE None

\* str::parse::<u64>
ParseU64(bytes) ==
    TheOne({ IF r.ok /\ r.n <= U64_MAX THEN r ELSE None : r \in {bytes2usize(bytes)} })

\* the INFO arm of Command::from_bytes
ParseInfo(remaining) ==
    IF Len(remaining) = 0 THEN Parsed(Info(NoneOpt), remaining)
    ELSE IF ToAsciiLowercase(remaining[1]) = b_replication
    THEN Parsed(Info(Some(Replication)), Tail(remaining))
    ELSE None

\* the CONFIG arm of Command::from_bytes; an argument other than GET panics
ParseConfig(remaining) ==
    IF Len(remaining) = 0 THEN None
    ELSE IF ToAsciiLowercase(remaining[1]) # b_get THEN None
    ELSE IF Len(remaining) < 2 THEN None
    ELSE Parsed(ConfigGet(remaining[2]), Drop(remaining, 2))

\* "<millis>-<seq_num>" split at the first '-', each part parsed as u64; a
\* seq_num of "*" is None when star is allowed
ParseIdParts(bytes, star) ==
    TheOne({ IF idx = 0 THEN None
             ELSE TheOne({ IF ~millis.ok THEN None
                           ELSE IF star /\ seq_num_bytes = B_star
                           THEN [ok |-> TRUE, millis |-> millis.n, seq_num |-> NoneOpt]
                           ELSE TheOne({ IF ~seq_num.ok THEN None
                                         ELSE [ok |-> TRUE, millis |-> millis.n,
                                               seq_num |-> Some(seq_num.n)]
                                         : seq_num \in {ParseU64(seq_num_bytes)} })
                           : millis \in {ParseU64(Take(bytes, idx - 1))},
                             seq_num_bytes \in {Drop(bytes, idx)} })
             : idx \in {Position(bytes, 45)} })

\* a start or end argument of XRANGE and XREAD: "<millis>-<seq_num>", or
\* "<millis>" alone with the seq_num given
ParseStreamEntryID(bytes, seq_num) ==
    IF Position(bytes, 45) # 0
    THEN TheOne({ IF ~r.ok THEN None
                  ELSE [ok |-> TRUE, id |-> StreamEntryID(r.millis, r.seq_num.x)]
                  : r \in {ParseIdParts(bytes, FALSE)} })
    ELSE TheOne({ IF ~millis.ok THEN None
                  ELSE [ok |-> TRUE, id |-> StreamEntryID(millis.n, seq_num)]
                  : millis \in {ParseU64(bytes)} })

\* chunks_exact(2) folded into a HashMap: a later pair replaces an earlier
\* one with the same field
RECURSIVE ChunksToMap(_, _)
ChunksToMap(args, acc) ==
    IF Len(args) < 2 THEN acc
    ELSE ChunksToMap(Drop(args, 2),
                     [f \in (DOMAIN acc) \cup {args[1]} |->
                         IF f = args[1] THEN args[2] ELSE acc[f]])

\* the XADD arm of Command::from_bytes
ParseXAdd(remaining) ==
    IF Len(remaining) < 2 THEN None
    ELSE TheOne({
        IF ~entry_id.ok THEN None
        ELSE TheOne({ Parsed(CmdXAdd(remaining[1], entry_id.id, data),
                             Drop(remaining, 2 + 2 * Cardinality(DOMAIN data)))
                      : data \in {ChunksToMap(Drop(remaining, 2), <<>>)} })
        : entry_id \in {IF remaining[2] = B_star THEN [ok |-> TRUE, id |-> NoneOpt]
                        ELSE TheOne({ IF ~r.ok THEN None
                                      ELSE [ok |-> TRUE,
                                            id |-> ReqStreamEntryID(r.millis, r.seq_num)]
                                      : r \in {ParseIdParts(remaining[2], TRUE)} })} })

\* the XRANGE arm of Command::from_bytes
ParseXRange(remaining) ==
    IF Len(remaining) < 3 THEN None
    ELSE TheOne({ IF ~start.ok \/ ~end.ok THEN None
                  ELSE Parsed(CmdXRange(remaining[1], start.id, end.id), Drop(remaining, 3))
                  : start \in {IF remaining[2] = <<45>>
                               THEN [ok |-> TRUE, id |-> StreamEntryID(0, 0)]
                               ELSE ParseStreamEntryID(remaining[2], 0)},
                    end \in {IF remaining[3] = <<43>>
                             THEN [ok |-> TRUE, id |-> StreamEntryID(U64_MAX, U64_MAX)]
                             ELSE ParseStreamEntryID(remaining[3], U64_MAX)} })

\* the streams keyword of XREAD: the first half of what follows are the keys,
\* the second half the start IDs
ParseXReadStreams(keys, starts) ==
    TheOne({ IF \E i \in 1..Len(ids) : ~ids[i].ok THEN None
             ELSE [ok |-> TRUE,
                   args |-> [i \in 1..Len(ids) |-> XReadStreamArg(keys[i], ids[i].id)]]
             : ids \in {[i \in 1..Len(keys) |-> ParseStreamEntryID(starts[i], 0)]} })

\* the XREAD arm of Command::from_bytes: the loop over the keywords
RECURSIVE ParseXRead(_, _, _)
ParseXRead(remaining, block, streams) ==
    IF Len(remaining) = 0
    THEN IF streams.some THEN Parsed(CmdXRead(block, streams.x), remaining) ELSE None
    ELSE IF remaining[1] = b_block
    THEN IF Len(remaining) < 2 THEN None
         ELSE TheOne({ IF ~dur.ok THEN None
                       ELSE ParseXRead(Drop(remaining, 2), Some(dur.n), streams)
                       : dur \in {ParseU64(remaining[2])} })
    ELSE IF remaining[1] = b_streams
    THEN TheOne({
            IF Len(rest) % 2 = 1 /\ half = 0 THEN None
            ELSE TheOne({ IF ~args.ok THEN None
                          ELSE ParseXRead(IF Len(rest) % 2 = 0 THEN <<>>
                                          ELSE <<rest[2 * half]>>,
                                          block, Some(args.args))
                          : args \in {ParseXReadStreams(Take(rest, half),
                                                        SubSeq(rest, half + 1, 2 * half))} })
            : rest \in {Tail(remaining)}, half \in {Len(Tail(remaining)) \div 2} })
    ELSE None

\* the match on the lower-cased verb in Command::from_bytes
ParseVerb(verb, remaining) ==
    CASE verb = b_ping -> Parsed(Ping, remaining)
      [] verb = b_echo ->
            IF Len(remaining) = 0 THEN None ELSE Parsed(Echo(remaining[1]), Tail(remaining))
      [] verb = b_get ->
            IF Len(remaining) = 0 THEN None ELSE Parsed(Get(remaining[1]), Tail(remaining))
      [] verb = b_set -> ParseSet(remaining)
      [] verb = b_replconf -> ParseReplConf(remaining)
      [] verb = b_psync -> ParsePSync(remaining)
      [] verb = b_wait -> ParseWait(remaining)
      [] verb = b_info -> ParseInfo(remaining)
      [] verb = b_config -> ParseConfig(remaining)
      [] verb = b_keys ->
            IF Len(remaining) = 0 THEN None ELSE Parsed(Keys, Tail(remaining))
      [] verb = b_type ->
            IF Len(remaining) = 0 THEN None
            ELSE Parsed(LookupType(remaining[1]), Tail(remaining))
      [] verb = b_xadd -> ParseXAdd(remaining)
      [] verb = b_xrange -> ParseXRange(remaining)
      [] verb = b_xread -> ParseXRead(remaining, NoneOpt, NoneOpt)
      [] OTHER -> None

\* Command::from_bytes: one command from the front of bytes, and the bytes after it
from_bytes(bytes) ==
    TheOne({ IF ~d.ok THEN None
             ELSE IF Len(d.args) = 0 THEN None
             ELSE TheOne({ IF ~p.ok THEN None
                           ELSE IF Len(p.remaining) # 0 THEN None
                           ELSE [ok |-> TRUE, cmd |-> p.cmd, rest |-> d.rest]
                           : p \in {ParseVerb(ToAsciiLowercase(d.args[1]), Tail(d.args))} })
             : d \in {decode_array_of_bulkstrings(bytes)} })

(***************************************************************************)
(* Connections.  Every connection starts as a client connection with its   *)
(* own handler task on the master.  The peers of Clients send SET and WAIT *)
(* requests; the peers of Replicas are replicas: they send PSYNC and then  *)
(* process what the master writes to them.                                 *)
(***************************************************************************)
Clients == {"c1", "c2"}
Replicas == {"r1", "r2"}
Conns == Clients \cup Replicas

\* requests one client connection sends in a run
MaxReqs == 2
\* frames the master of a stand-alone replica sends in a run
MaxStream == 5

VARIABLES
    pc,           \* handler task of each connection: where it is in handle_conn
    req,          \* handler task: the command it decoded from its last read
    nread,        \* handler task: number of reads it has done on its socket
    store,        \* master: the current database, key -> [value, px]
    commitLog,    \* history: the SET commands in the order store.set applied them
    repl_offset,  \* master_info.repl_offset
    repl_conns,   \* the replica list, in push order
    replLock,     \* holder of the repl_conns mutex, or "free"
    connLock,     \* holder of each replica connection's mutex, or "free"
    out,          \* per connection: every frame the master has written to it
    iter,         \* SET handler: index in repl_conns of the next replica to write to
    master_repl_offset, \* WAIT handler: the replication offset it read
    ack_num,      \* WAIT handler: ACKs counted so far
    timed_out,    \* WAIT handler: whether time::timeout returned Elapsed
    tasks,        \* WAIT handler: its JoinSet, replica connection -> task state
    rstate,       \* replica peer: where it is (handshake, watching, failed)
    rpos,         \* replica peer: number of frames of out it has consumed
    r_offset,     \* replica peer: its byte offset
    r_store,      \* replica peer: its store
    sentAcks,     \* per connection: every frame the replica peer has written to it
    hs_buf,       \* replica peer: recv_buf of ReplicaServer::new, without its zero tail
    inPos,        \* per connection: number of frames of sentAcks the master has read
    streams,      \* master database: RedisDb::streams, key -> [root, last_entry]
    stream_senders, \* master database: keys of RedisDb::stream_senders
    xtasks,       \* XREAD handler: its JoinSet, one task with a receiver per stream
    xargs,        \* XREAD handler: the streams argument of the blocking command
    xappended,    \* history: entries XADD appended while the XREAD was blocked
    xids,         \* history: per stream, the IDs successful XADDs returned, in order
    xlast,        \* history: the last stream command answered, with its reply
    clock,        \* the clock: the instant SystemTime::now() and get_current_ms() return
    redis_db,     \* master database: RedisDb::nonexpire_table and expire_table
    redis_store,  \* replica: its RedisStore, key -> [value, expiry]
    served,       \* history: the last GET answered, with its instant and its reply
    inbox,        \* per connection: the requests its peer has written, not yet read
    closed,       \* the connections whose peer has closed its side
    conn_buf,     \* handler task: buf of handle_conn, without its zero tail
    turn          \* history: the last operation of the specification at hand, with what it
                  \* was given and what came of it

masterVars == <<pc, req, nread, store, commitLog, repl_offset, repl_conns, replLock,
                connLock, iter, master_repl_offset, ack_num, timed_out, tasks,
                inPos>>
replicaVars == <<rstate, rpos, r_offset, r_store, sentAcks, hs_buf>>
dbVars == <<streams, stream_senders, xtasks, xargs, xappended, xids, xlast>>
connVars == <<inbox, closed, conn_buf, turn>>
extVars == <<clock, redis_db, redis_store, served, inbox, closed, conn_buf, turn>>
vars == <<masterVars, out, replicaVars, dbVars, extVars>>

(***************************************************************************)
(* Frames: what one write_all call of the master or of a replica carries.  *)
(***************************************************************************)
CmdFrame(cmd) == [k |-> "cmd", cmd |-> cmd]
RespFrame(val) == [k |-> "resp", val |-> val]
RdbFrame == [k |-> "rdb"]
\* the peer has closed its side: every read from here on returns 0 bytes
EofFrame == [k |-> "eof"]

\* variant: the snapshot is sent as a complete bulk string
RdbTransferWhole == RespToBytes(BulkString(EMPTY_RDB))

\* master.rs 127-130: the snapshot as a bulk string with the last two bytes cut off
RdbTransfer ==
    LET buf == RespToBytes(BulkString(EMPTY_RDB))
    IN  Take(buf, Len(buf) - 2)

\* master.rs 123-124: "FULLRESYNC <repl_id> 0"
FullResyncText == B_FULLRESYNC \o <<32>> \o REPL_ID \o <<32>> \o <<48>>

FrameBytes(f) ==
    CASE f.k = "cmd" -> to_bytes(f.cmd)
      [] f.k = "resp" -> RespToBytes(f.val)
      [] f.k = "rdb" -> RdbTransfer
      [] f.k = "eof" -> <<>>

FramesBytes(fs) == Concat([i \in 1..Len(fs) |-> FrameBytes(fs[i])])

(***************************************************************************)
(* replica.rs: the replica's side of its master connection.                *)
(***************************************************************************)
\* str::split(" ")
RECURSIVE SplitBySpace(_)
SplitBySpace(text) ==
    TheOne({ IF i = 0 THEN <<text>> ELSE <<Take(text, i - 1)>> \o SplitBySpace(Drop(text, i))
             : i \in {Position(text, 32)} })

\* ReplicaServer::parse_fullresync
parse_fullresync(buf) ==
    TheOne({ IF ~d.ok THEN None
             ELSE IF d.val.t # "SimpleString" THEN None
             ELSE TheOne({
                 IF ToAsciiLowercase(args[1]) # ToAsciiLowercase(B_FULLRESYNC) THEN None
                 ELSE IF Len(args) < 2 \/ Len(args[2]) # 40 THEN None
                 ELSE IF Len(args) < 3 \/ ~bytes2usize(args[3]).ok THEN None
                 ELSE IF Len(args) > 3 THEN None
                 ELSE [ok |-> TRUE,
                       master_info |-> [repl_id |-> args[2],
                                        repl_offset |-> bytes2usize(args[3]).n],
                       remaining |-> d.rest]
                 : args \in {SplitBySpace(d.val.s)} })
             : d \in {decode(buf)} })

\* ReplicaServer::parse_rdb: "$<length>\r\n<contents>", no CR-LF after the contents
parse_rdb(buf) ==
    IF Len(buf) = 0 \/ buf[1] # 36 THEN None
    ELSE TheOne({ IF ~l.ok THEN None
                  ELSE TheOne({ IF ~length.ok THEN None
                                ELSE IF length.n > Len(l.rest) THEN None
                                ELSE [ok |-> TRUE, rdb |-> Take(l.rest, length.n),
                                      remaining |-> Drop(l.rest, length.n)]
                                : length \in {bytes2usize(l.data)} })
                  : l \in {split_by_clrf(Tail(buf))} })

\* mod.rs 43-58: RedisStore::get of the replica; expired says whether the clock has
\* passed the expiry of the key
ReplicaStoreGet(st, key, expired) ==
    IF key \notin DOMAIN st THEN NoneOpt
    ELSE IF st[key].px.some /\ expired THEN NoneOpt
    ELSE Some(st[key].value)

\* replica.rs 55-71: the reply of the replica to GET key
ReplicaGetReply(st, key, expired) ==
    TheOne({ IF value.some THEN BulkString(value.x) ELSE NullBulkString
             : value \in {ReplicaStoreGet(st, key, expired)} })

\* RedisStore::set of the replica
ReplicaStoreSet(st, key, value, px) ==
    [x \in (DOMAIN st) \cup {key} |-> IF x = key THEN [value |-> value, px |-> px] ELSE st[x]]

\* variant: the bytes already consumed from this buffer are not subtracted
OffsetDeltaFromStart(recv_len, remaining_len, ptr) == recv_len - remaining_len

\* replica.rs 152: bytes consumed by the command just decoded
OffsetDelta(recv_len, remaining_len, ptr) == recv_len - remaining_len - ptr

\* variant: the offset is overwritten instead of advanced
AdvanceOffsetAssign(offset, offset_delta) == offset_delta

\* replica.rs 176-178
AdvanceOffset(offset, offset_delta) == offset + offset_delta

\* variant: the GETACK is counted before the reply is built
GetAckReplyCounted(offset, offset_delta) == ReplConf(Ack(offset + offset_delta))

\* replica.rs 166-169: the reply to GETACK, built before this command is counted
GetAckReply(offset, offset_delta) == ReplConf(Ack(offset))

\* variant: a SET is answered with an ACK as well
WritesToMasterAckSet(cmd, offset, offset_delta) ==
    IF IsGetAck(cmd) \/ IsSet(cmd)
    THEN <<CmdFrame(GetAckReply(offset, offset_delta))>>
    ELSE <<>>

\* replica.rs 155-174: what the arms of handle_cmd_from_master write to the
\* master connection for one command: send_cmd in the GETACK arm only
WritesToMaster(cmd, offset, offset_delta) ==
    IF IsGetAck(cmd)
    THEN <<CmdFrame(GetAckReply(offset, offset_delta))>>
    ELSE <<>>

\* ReplicaServer::handle_cmd_from_master; ptr counts from 0 as in the code.
\* st is the replica's [store, offset], the frames it sent, and err (the Err return).
RECURSIVE handle_cmd_from_master(_, _, _, _)
handle_cmd_from_master(recv_buf, buf_len, ptr, st) ==
    IF ~(ptr < buf_len) THEN st
    ELSE TheOne({
        IF ~r.ok THEN [st EXCEPT !.err = TRUE]
        ELSE TheOne({
            handle_cmd_from_master(recv_buf, buf_len, ptr + offset_delta,
                [(CASE IsSet(r.cmd) ->
                         [st EXCEPT !.store = ReplicaStoreSet(@, r.cmd.key, r.cmd.value,
                                                              r.cmd.px)]
                    [] OTHER -> st)
                 EXCEPT !.sent = @ \o WritesToMaster(r.cmd, st.offset, offset_delta),
                        !.offset = AdvanceOffset(@, offset_delta)])
            : offset_delta \in {OffsetDelta(Len(recv_buf), Len(r.rest), ptr)} })
        : r \in {from_bytes(Drop(recv_buf, ptr))} })

\* replica.rs 232-244: the snapshot, then any commands that came with it
AfterFullResync(remaining, st) ==
    TheOne({ IF ~p.ok THEN [st EXCEPT !.state = "failed"]
             ELSE TheOne({ [s EXCEPT !.state = IF s.err THEN "failed" ELSE "watching"]
                           : s \in {handle_cmd_from_master(p.remaining, Len(p.remaining),
                                                           0, st)} })
             : p \in {parse_rdb(remaining)} })

\* one read of the replica on its master connection returning bytes:
\* replica.rs 217-231 (after PSYNC), 224-231 (second read), 256-270 (watch_master)
ReplicaOnRead(bytes, st) ==
    CASE st.state = "wait_fullresync" ->
            TheOne({ IF ~f.ok THEN [st EXCEPT !.state = "failed"]
                     ELSE IF Len(bytes) - Len(f.remaining) >= Len(bytes)
                          THEN [st EXCEPT !.state = "wait_rdb"]
                          ELSE AfterFullResync(f.remaining, st)
                     : f \in {parse_fullresync(bytes)} })
      [] st.state = "wait_rdb" -> AfterFullResync(bytes, st)
      [] st.state = "watching" ->
            TheOne({ [s EXCEPT !.state = IF s.err THEN "failed" ELSE "watching"]
                     : s \in {handle_cmd_from_master(bytes, Len(bytes), 0, st)} })

\* The replica peer of connection r reads: it gets the next k frames the master wrote.
ReplicaRead(r) ==
    /\ rstate[r] \in {"wait_fullresync", "wait_rdb", "watching"}
    /\ \E k \in 1..(Len(out[r]) - rpos[r]) :
       \E bytes \in {FramesBytes(SubSeq(out[r], rpos[r] + 1, rpos[r] + k))} :
       \E res \in {ReplicaOnRead(bytes, [state |-> rstate[r], store |-> r_store[r],
                                          offset |-> r_offset[r], sent |-> <<>>,
                                          err |-> FALSE])} :
              /\ rpos' = [rpos EXCEPT ![r] = @ + k]
              /\ rstate' = [rstate EXCEPT ![r] = res.state]
              /\ r_store' = [r_store EXCEPT ![r] = res.store]
              /\ r_offset' = [r_offset EXCEPT ![r] = res.offset]
              /\ sentAcks' = [sentAcks EXCEPT ![r] = @ \o res.sent]
    /\ UNCHANGED <<masterVars, out, hs_buf, dbVars, extVars>>

(***************************************************************************)
(* replica.rs: ReplicaServer::new, the handshake that precedes PSYNC.      *)
(***************************************************************************)
B_PONG == <<80, 79, 78, 71>>
B_psync2 == <<112, 115, 121, 110, 99, 50>>
B_ERR == <<69, 82, 82>>

\* main.rs 87: the port a server listens on by default
ReplicaPort == 6379

\* replica.rs 187-214: the commands of the handshake, in the order of the code
HsSteps ==
    << Ping, ReplConf(ListeningPort(ReplicaPort)), ReplConf(Capa(<<B_psync2>>)),
       PSync(NoneOpt, NoneOpt) >>

\* replica.rs 189, 197, 205: the reply each of the first three steps asserts
HsReplies == <<B_PONG, B_OK, B_OK>>

\* socket.read(buf): the bytes read overwrite the front of the buffer, the rest stays
OverlayRead(buf, bytes) == bytes \o Drop(buf, Len(bytes))

\* server.rs 372-381: read into buf, then assert buf.starts_with(+<expected>\r\n)
assert_recv_simple_string(buf, bytes, expected) ==
    TheOne({ [buf |-> b, ok |-> IsPrefix(RespToBytes(SimpleString(expected)), b)]
             : b \in {OverlayRead(buf, bytes)} })

\* replica.rs 187-214: the next command of the handshake is sent
HsSend(r) ==
    /\ rstate[r] = "hs_send"
    /\ sentAcks' = [sentAcks EXCEPT ![r] = Append(@, CmdFrame(HsSteps[Len(@) + 1]))]
    /\ rstate' = [rstate EXCEPT ![r] =
                     IF Len(sentAcks[r]) + 1 = Len(HsSteps) THEN "wait_fullresync"
                     ELSE "hs_recv"]
    /\ UNCHANGED <<masterVars, out, rpos, r_offset, r_store, hs_buf, dbVars, extVars>>

\* replica.rs 189, 197, 205: one read, then the assertion; a failed assertion panics
HsRecv(r) ==
    /\ rstate[r] = "hs_recv"
    /\ \E k \in 1..(Len(out[r]) - rpos[r]) :
       \E res \in {assert_recv_simple_string(hs_buf[r],
                       FramesBytes(SubSeq(out[r], rpos[r] + 1, rpos[r] + k)),
                       HsReplies[Len(sentAcks[r])])} :
              /\ rpos' = [rpos EXCEPT ![r] = @ + k]
              /\ hs_buf' = [hs_buf EXCEPT ![r] = res.buf]
              /\ rstate' = [rstate EXCEPT ![r] = IF res.ok THEN "hs_send" ELSE "panicked"]
    /\ UNCHANGED <<masterVars, out, r_offset, r_store, sentAcks, dbVars, extVars>>

(***************************************************************************)
(* master.rs: MasterServer::handle_conn, one task per connection.  Each    *)
(* action is what the task does between two points where it can suspend    *)
(* (a socket read or write, a lock acquisition).                           *)
(***************************************************************************)
K_k == <<107>>
K_kk == <<107, 107>>
B_WAIT == <<87, 65, 73, 84>>
B_100 == <<49, 48, 48>>

\* the value of the i-th request of a connection: no two SET requests are equal
ReqValue(c, i) == IF c = "c1" THEN <<96 + i>> ELSE <<108 + i>>

\* numbers of replicas a WAIT request may ask for
WaitNums == {0, 1, 2}

\* the argument vectors the peer of connection c may send as its i-th request
Requests(c, i) ==
    IF c \in Replicas
    THEN IF i = 1 THEN {<<B_PSYNC, B_qmark, B_minus1>>} ELSE {}
    ELSE {IF c = "c1" THEN <<B_SET, K_k, ReqValue(c, i)>>
                      ELSE <<B_SET, K_kk, ReqValue(c, i), B_px, B_100>>}
         \cup {<<B_WAIT, NatToBytes(n), B_100>> : n \in WaitNums}

\* requests the client connections have sent so far
ClientReads == SumSeq([i \in 1..2 |-> nread[IF i = 1 THEN "c1" ELSE "c2"]])

Range(f) == {f[x] : x \in DOMAIN f}

\* RedisStore::set -> RedisDb::set, reduced to the binding it leaves for the key
StoreSet(st, key, value, px) ==
    [x \in (DOMAIN st) \cup {key} |-> IF x = key THEN [value |-> value, px |-> px] ELSE st[x]]

\* what the handler decodes from the i-th request of connection c, as triples
\* <<c, i, command>>
DecodedRequests ==
    UNION {{<<c, i, from_bytes(ArgsToBytes(args)).cmd>> : args \in Requests(c, i)} :
              c \in Conns, i \in 1..(MaxReqs + 1)}

\* master.rs 60-66: a read of the handler of c and the command it decodes from it.
\* The read and the decoding touch nothing but the handler's own socket and buffer, so
\* they are folded into the first step of the command's arm.
ReadCommands(c) ==
    IF pc[c] = "read" /\ (c \in Clients => ClientReads < MaxReqs)
    THEN {t[3] : t \in {u \in DecodedRequests : u[1] = c /\ u[2] = nread[c] + 1}}
    ELSE {}

\* what every read of handler c leaves behind
AfterRead(c, cmd) ==
    /\ req' = [req EXCEPT ![c] = Some(cmd)]
    /\ nread' = [nread EXCEPT ![c] = @ + 1]
    /\ timed_out' = [timed_out EXCEPT ![c] = FALSE]

\* master.rs 75-78: a SET is read and applied: self.store.set(...)
SetStoreOf(c, cmds) ==
    /\ \E cmd \in cmds :
          /\ cmd.v = "Set"
          /\ AfterRead(c, cmd)
          /\ store' = StoreSet(store, cmd.key, cmd.value, cmd.px)
          /\ commitLog' = Append(commitLog, cmd)
    /\ pc' = [pc EXCEPT ![c] = "set_offset"]
    /\ UNCHANGED <<repl_offset, repl_conns, replLock, connLock, iter, master_repl_offset,
                   ack_num, tasks, inPos, out, replicaVars, dbVars, extVars>>

SetStore(c) == SetStoreOf(c, ReadCommands(c))

\* master.rs 83-85: the offset advances under the master_info lock
SetOffset(c) ==
    /\ pc[c] = "set_offset"
    /\ repl_offset' = repl_offset + Len(to_bytes(req[c].x))
    /\ pc' = [pc EXCEPT ![c] = "set_lock"]
    /\ UNCHANGED <<req, nread, store, commitLog, repl_conns, replLock, connLock, iter,
                   master_repl_offset, ack_num, timed_out, tasks, inPos, out,
                   replicaVars, dbVars, extVars>>

\* variant: the propagation loop starts without waiting for the lock of the list
SetLockReplicasNoWait(c) ==
    /\ pc[c] = "set_lock"
    /\ replLock' = c
    /\ iter' = [iter EXCEPT ![c] = 1]
    /\ pc' = [pc EXCEPT ![c] = "set_send"]
    /\ UNCHANGED <<req, nread, store, commitLog, repl_offset, repl_conns, connLock,
                   master_repl_offset, ack_num, timed_out, tasks, inPos, out,
                   replicaVars, dbVars, extVars>>

\* master.rs 87: self.repl_conns.lock().await
SetLockReplicas(c) ==
    /\ pc[c] = "set_lock"
    /\ replLock = "free"
    /\ replLock' = c
    /\ iter' = [iter EXCEPT ![c] = 1]
    /\ pc' = [pc EXCEPT ![c] = "set_send"]
    /\ UNCHANGED <<req, nread, store, commitLog, repl_offset, repl_conns, connLock,
                   master_repl_offset, ack_num, timed_out, tasks, inPos, out,
                   replicaVars, dbVars, extVars>>

\* master.rs 88-92: one turn of the loop: lock the connection, write the command, unlock
SetSend(c) ==
    /\ pc[c] = "set_send"
    /\ iter[c] <= Len(repl_conns)
    /\ connLock[repl_conns[iter[c]]] = "free"
    /\ out' = [out EXCEPT ![repl_conns[iter[c]]] = Append(@, CmdFrame(req[c].x))]
    /\ iter' = [iter EXCEPT ![c] = @ + 1]
    /\ UNCHANGED <<pc, req, nread, store, commitLog, repl_offset, repl_conns, replLock,
                   connLock, master_repl_offset, ack_num, timed_out, tasks, inPos,
                   replicaVars, dbVars, extVars>>

\* variant: the handler goes back to its read when the loop is over and leaves the
\* answer to be written later
SetReplyDetached(c) ==
    /\ pc[c] = "set_send"
    /\ iter[c] > Len(repl_conns)
    /\ replLock' = "free"
    /\ pc' = [pc EXCEPT ![c] = "read"]
    /\ UNCHANGED <<req, nread, store, commitLog, repl_offset, repl_conns, connLock, iter,
                   master_repl_offset, ack_num, timed_out, tasks, inPos, out,
                   replicaVars, dbVars, extVars>>

\* master.rs 93-95: end of the loop: release the list, answer the client
SetReply(c) ==
    /\ pc[c] = "set_send"
    /\ iter[c] > Len(repl_conns)
    /\ replLock' = "free"
    /\ out' = [out EXCEPT ![c] = Append(@, RespFrame(SimpleString(B_OK)))]
    /\ pc' = [pc EXCEPT ![c] = "read"]
    /\ UNCHANGED <<req, nread, store, commitLog, repl_offset, repl_conns, connLock, iter,
                   master_repl_offset, ack_num, timed_out, tasks, inPos,
                   replicaVars, dbVars, extVars>>

\* master.rs 113-136: a PSYNC is read: FULLRESYNC <repl_id> 0, then the snapshot
PSyncReply(c) ==
    /\ \E cmd \in ReadCommands(c) :
          /\ cmd.v = "PSync"
          /\ AfterRead(c, cmd)
    /\ out' = [out EXCEPT ![c] = @ \o <<RespFrame(SimpleString(FullResyncText)), RdbFrame>>]
    /\ pc' = [pc EXCEPT ![c] = "psync_attach"]
    /\ UNCHANGED <<store, commitLog, repl_offset, repl_conns, replLock, connLock, iter,
                   master_repl_offset, ack_num, tasks, inPos, replicaVars, dbVars, extVars>>

\* master.rs 138-142: the socket moves into the replica list and the handler ends
PSyncAttach(c) ==
    /\ pc[c] = "psync_attach"
    /\ replLock = "free"
    /\ repl_conns' = Append(repl_conns, c)
    /\ pc' = [pc EXCEPT ![c] = "exited"]
    /\ UNCHANGED <<req, nread, store, commitLog, repl_offset, replLock, connLock, iter,
                   master_repl_offset, ack_num, timed_out, tasks, inPos, out,
                   replicaVars, dbVars, extVars>>

\* master.rs 144-155: a WAIT is read; the offset is read under the master_info lock
WaitOffset(c) ==
    /\ \E cmd \in ReadCommands(c) :
          /\ cmd.v = "Wait"
          /\ AfterRead(c, cmd)
    /\ master_repl_offset' = [master_repl_offset EXCEPT ![c] = repl_offset]
    /\ pc' = [pc EXCEPT ![c] = IF repl_offset = 0 THEN "wait_count" ELSE "wait_getacks"]
    /\ UNCHANGED <<store, commitLog, repl_offset, repl_conns, replLock, connLock, iter,
                   ack_num, tasks, inPos, out, replicaVars, dbVars, extVars>>

\* variant: the number is capped by the number of replicas asked for
ReplicaNumCapped(conns, n) == IF Len(conns) > n THEN n ELSE Len(conns)

\* master.rs 156-159: the number replied when the offset read was 0
ReplicaNum(conns, n) == Len(conns)

\* the arm of WAIT is left: its locals (the offset read, the count, the JoinSet) are gone
WaitLocalsDropped(c) ==
    /\ master_repl_offset' = [master_repl_offset EXCEPT ![c] = 0]
    /\ ack_num' = [ack_num EXCEPT ![c] = 0]
    /\ tasks' = [tasks EXCEPT ![c] = <<>>]

\* master.rs 156-159, 216: the length of the replica list is taken under its lock and sent
WaitCount(c) ==
    /\ pc[c] = "wait_count"
    /\ replLock = "free"
    /\ out' = [out EXCEPT ![c] =
                   Append(@, RespFrame(Integer(ReplicaNum(repl_conns, req[c].x.repl_ack_num))))]
    /\ WaitLocalsDropped(c)
    /\ pc' = [pc EXCEPT ![c] = "read"]
    /\ UNCHANGED <<req, nread, store, commitLog, repl_offset, repl_conns, replLock, connLock,
                   iter, timed_out, inPos, replicaVars, dbVars, extVars>>

\* master.rs 165-200: under the list lock, spawn one task per replica connection
WaitSpawn(c) ==
    /\ pc[c] = "wait_getacks"
    /\ replLock = "free"
    /\ tasks' = [tasks EXCEPT ![c] = [r \in Range(repl_conns) |-> "spawned"]]
    /\ pc' = [pc EXCEPT ![c] = "wait_join"]
    /\ UNCHANGED <<req, nread, store, commitLog, repl_offset, repl_conns, replLock, connLock,
                   iter, master_repl_offset, ack_num, timed_out, inPos, out,
                   replicaVars, dbVars, extVars>>

\* the tasks of handler c that are still running
Running(c) == {r \in DOMAIN tasks[c] : tasks[c][r] \in {"spawned", "reading"}}
\* the tasks of handler c that have finished and wait to be joined
Finished(c) == {r \in DOMAIN tasks[c] : tasks[c][r] \in {"done_ack", "done_other", "done_panic"}}
\* the tasks of handler c that join_next has returned
Joined(c) == {r \in DOMAIN tasks[c] : tasks[c][r] \in {"joined_ack", "joined_other", "joined_panic"}}
\* the connections handler c has written a GETACK to
GetAckSent(c) == {r \in DOMAIN tasks[c] : tasks[c][r] # "spawned"}
\* the connections handler c has read a reply of shape REPLCONF ACK from
AckRead(c) == {r \in DOMAIN tasks[c] : tasks[c][r] \in {"done_ack", "joined_ack"}}

\* master.rs 173-177: the task locks its connection and writes GETACK
TaskSend(c, r) ==
    /\ pc[c] = "wait_join"
    /\ r \in DOMAIN tasks[c]
    /\ tasks[c][r] = "spawned"
    /\ connLock[r] = "free"
    /\ connLock' = [connLock EXCEPT ![r] = c]
    /\ out' = [out EXCEPT ![r] = Append(@, CmdFrame(ReplConf(GetAck)))]
    /\ tasks' = [tasks EXCEPT ![c][r] = "reading"]
    /\ UNCHANGED <<pc, req, nread, store, commitLog, repl_offset, repl_conns, replLock, iter,
                   master_repl_offset, ack_num, timed_out, inPos, replicaVars, dbVars, extVars>>

\* master.rs 193-197: the task's result for the command it decoded
TaskResult(r) == IF ~r.ok THEN "done_panic" ELSE IF IsAck(r.cmd) THEN "done_ack" ELSE "done_other"

\* master.rs 180-197: the task reads what the replica has written, unlocks, decodes the
\* first command in the buffer
TaskRead(c, r) ==
    /\ pc[c] = "wait_join"
    /\ r \in DOMAIN tasks[c]
    /\ tasks[c][r] = "reading"
    /\ inPos[r] < Len(sentAcks[r])
    /\ inPos' = [inPos EXCEPT ![r] = Len(sentAcks[r])]
    /\ connLock' = [connLock EXCEPT ![r] = "free"]
    /\ tasks' = [tasks EXCEPT ![c][r] =
                     TaskResult(from_bytes(FramesBytes(Drop(sentAcks[r], inPos[r]))))]
    /\ UNCHANGED <<pc, req, nread, store, commitLog, repl_offset, repl_conns, replLock, iter,
                   master_repl_offset, ack_num, timed_out, out, replicaVars, dbVars, extVars>>

\* variant: the loop runs until the JoinSet is empty, whatever the count
WaitLoopCondAll(c) == Running(c) \cup Finished(c) # {}

\* master.rs 202: the loop condition
WaitLoopCond(c) == ack_num[c] < req[c].x.repl_ack_num /\ Running(c) \cup Finished(c) # {}

\* master.rs 203-209: join_next returns a finished task
WaitJoin(c) ==
    /\ pc[c] = "wait_join"
    /\ WaitLoopCond(c)
    /\ \E r \in Finished(c) :
          /\ tasks' = [tasks EXCEPT ![c][r] =
                           CASE @ = "done_ack" -> "joined_ack"
                             [] @ = "done_other" -> "joined_other"
                             [] @ = "done_panic" -> "joined_panic"]
          /\ ack_num' = [ack_num EXCEPT ![c] = IF tasks[c][r] = "done_ack" THEN @ + 1 ELSE @]
    /\ UNCHANGED <<pc, req, nread, store, commitLog, repl_offset, repl_conns, replLock,
                   connLock, iter, master_repl_offset, timed_out, inPos, out,
                   replicaVars, dbVars, extVars>>

\* variant: an aborted task keeps its guard on the connection
ReleaseLocksKept(c, locks) == locks

\* dropping the JoinSet aborts the tasks that still run; an aborted task that was
\* reading drops its guard on the connection
ReleaseLocks(c, locks) ==
    [r \in DOMAIN locks |-> IF locks[r] = c /\ r \in DOMAIN tasks[c] /\ tasks[c][r] = "reading"
                            THEN "free" ELSE locks[r]]

\* master.rs 202, 211-216: the loop ends, the JoinSet is dropped, the count is sent
WaitFinish(c) ==
    /\ pc[c] = "wait_join"
    /\ ~WaitLoopCond(c)
    /\ connLock' = ReleaseLocks(c, connLock)
    /\ out' = [out EXCEPT ![c] = Append(@, RespFrame(Integer(ack_num[c])))]
    /\ WaitLocalsDropped(c)
    /\ pc' = [pc EXCEPT ![c] = "read"]
    /\ UNCHANGED <<req, nread, store, commitLog, repl_offset, repl_conns, replLock, iter,
                   timed_out, inPos, replicaVars, dbVars, extVars>>

\* variant: the deadline covers the spawning of the tasks only, not the joining loop
WaitTimeoutSpawnOnly(c) ==
    /\ pc[c] = "wait_getacks"
    /\ timed_out' = [timed_out EXCEPT ![c] = TRUE]
    /\ out' = [out EXCEPT ![c] = Append(@, RespFrame(Integer(ack_num[c])))]
    /\ WaitLocalsDropped(c)
    /\ pc' = [pc EXCEPT ![c] = "read"]
    /\ UNCHANGED <<req, nread, store, commitLog, repl_offset, repl_conns, replLock, connLock,
                   iter, inPos, replicaVars, dbVars, extVars>>

\* master.rs 212-216: the deadline passes first: the future and with it the JoinSet are
\* dropped, the count reached so far is sent
WaitTimeout(c) ==
    /\ pc[c] \in {"wait_getacks", "wait_join"}
    /\ timed_out' = [timed_out EXCEPT ![c] = TRUE]
    /\ connLock' = ReleaseLocks(c, connLock)
    /\ out' = [out EXCEPT ![c] = Append(@, RespFrame(Integer(ack_num[c])))]
    /\ WaitLocalsDropped(c)
    /\ pc' = [pc EXCEPT ![c] = "read"]
    /\ UNCHANGED <<req, nread, store, commitLog, repl_offset, repl_conns, replLock, iter,
                   inPos, replicaVars, dbVars, extVars>>

(***************************************************************************)
(* A replica on its own, against a master that may send any command.       *)
(***************************************************************************)
\* what the master of a stand-alone replica may send after the snapshot
StreamCmds ==
    { Set(K_k, <<97>>, NoneOpt), Set(K_kk, <<98>>, Some(100)), ReplConf(GetAck), Ping }

\* The master of the stand-alone replica r1 writes one more frame.
EnvMasterSend(r) ==
    /\ Len(out[r]) < MaxStream
    /\ \E f \in IF Len(out[r]) = 0 THEN {RespFrame(SimpleString(FullResyncText))}
                ELSE IF Len(out[r]) = 1 THEN {RdbFrame}
                ELSE {CmdFrame(c) : c \in StreamCmds} :
          out' = [out EXCEPT ![r] = Append(@, f)]
    /\ UNCHANGED <<masterVars, replicaVars, dbVars, extVars>>

\* RedisDb::new and RedisStore::new: empty tables; the clock starts at 0
InitExt ==
    /\ clock = 0
    /\ redis_db = [nonexpire_table |-> <<>>, expire_table |-> <<>>]
    /\ redis_store = <<>>
    /\ served = NoneOpt
    /\ inbox = [c \in Clients |-> <<>>]
    /\ closed = {}
    /\ conn_buf = [c \in Clients |-> <<>>]
    /\ turn = NoneOpt

\* RedisDb::new: no stream, no broadcast channel; no XREAD in progress
InitDb ==
    /\ streams = <<>>
    /\ stream_senders = {}
    /\ xtasks = [c \in Clients |-> <<>>]
    /\ xargs = [c \in Clients |-> NoneOpt]
    /\ xappended = [c \in Clients |-> {}]
    /\ xids = <<>>
    /\ xlast = NoneOpt

InitMaster ==
    /\ pc = [c \in Conns |-> "read"]
    /\ req = [c \in Conns |-> NoneOpt]
    /\ nread = [c \in Conns |-> 0]
    /\ store = <<>>
    /\ commitLog = <<>>
    /\ repl_offset = 0
    /\ repl_conns = <<>>
    /\ replLock = "free"
    /\ connLock = [c \in Conns |-> "free"]
    /\ out = [c \in Conns |-> <<>>]
    /\ iter = [c \in Conns |-> 1]
    /\ master_repl_offset = [c \in Conns |-> 0]
    /\ ack_num = [c \in Conns |-> 0]
    /\ timed_out = [c \in Conns |-> FALSE]
    /\ tasks = [c \in Conns |-> <<>>]
    /\ inPos = [c \in Conns |-> 0]
    /\ InitDb
    /\ InitExt

InitReplicaPeers ==
    /\ rstate = [c \in Conns |-> "wait_fullresync"]
    /\ rpos = [c \in Conns |-> 0]
    /\ r_offset = [c \in Conns |-> 0]
    /\ r_store = [c \in Conns |-> <<>>]
    /\ sentAcks = [c \in Conns |-> <<>>]
    /\ hs_buf = [c \in Conns |-> <<>>]

InitReplica == InitMaster /\ InitReplicaPeers

NextReplica == EnvMasterSend("r1") \/ ReplicaRead("r1")

SpecReplica == InitReplica /\ [][NextReplica]_vars

(***************************************************************************)
(* The master with its client connections and its replicas.                *)
(***************************************************************************)
Init == InitMaster /\ InitReplicaPeers

HandlerStep(c) ==
    \/ SetStore(c) \/ SetOffset(c) \/ SetLockReplicas(c) \/ SetSend(c) \/ SetReply(c)
    \/ PSyncReply(c) \/ PSyncAttach(c)
    \/ WaitOffset(c) \/ WaitCount(c) \/ WaitSpawn(c) \/ WaitJoin(c) \/ WaitFinish(c)
    \/ WaitTimeout(c)
    \/ \E r \in Replicas : TaskSend(c, r) \/ TaskRead(c, r)

Next ==
    \/ \E c \in Conns : HandlerStep(c)
    \/ \E r \in Replicas : ReplicaRead(r)

Spec == Init /\ [][Next]_vars

(***************************************************************************)
(* Reading the history of a replica connection.                            *)
(***************************************************************************)
\* out[r][1] and out[r][2] are the FULLRESYNC reply and the snapshot
FirstCmdPos == 3

\* total serialized length of the command frames out[r][FirstCmdPos .. last]
StreamBytes(r, last) ==
    SumSeq([j \in 1..(last - FirstCmdPos + 1) |-> Len(FrameBytes(out[r][j + FirstCmdPos - 1]))])

IsGetAckFrame(f) == f.k = "cmd" /\ IsGetAck(f.cmd)
IsSetFrame(f) == f.k = "cmd" /\ IsSet(f.cmd)

\* positions of the GETACK frames the replica peer of r has consumed
ConsumedGetAcks(r) == {i \in FirstCmdPos..rpos[r] : IsGetAckFrame(out[r][i])}

\* position of the n-th of them
NthGetAck(r, n) ==
    CHOOSE i \in ConsumedGetAcks(r) : Cardinality({j \in ConsumedGetAcks(r) : j < i}) = n - 1

\* the offset carried by the n-th frame replica r wrote, as its reader decodes it
SentAckOffset(r, n) == from_bytes(FrameBytes(sentAcks[r][n])).cmd.arg.offset

C5_OffsetIsBytesParsed ==
    rstate["r1"] = "watching" => r_offset["r1"] = StreamBytes("r1", rpos["r1"])

\* the replica has parsed a SET, a GETACK and an ignored PING
C5_Witness ==
    /\ rstate["r1"] = "watching"
    /\ \E i, j, l \in FirstCmdPos..rpos["r1"] :
          /\ IsSetFrame(out["r1"][i])
          /\ IsGetAckFrame(out["r1"][j])
          /\ out["r1"][l] = CmdFrame(Ping)

\* C6: the offsets in the successive ACKs one replica sends never decrease.
C6_AckOffsetsMonotone ==
    \A m, n \in 1..Len(sentAcks["r1"]) :
        m < n => SentAckOffset("r1", m) <= SentAckOffset("r1", n)

\* the replica has sent two ACKs with different offsets
C6_Witness ==
    \E m, n \in 1..Len(sentAcks["r1"]) :
        m < n /\ SentAckOffset("r1", m) < SentAckOffset("r1", n)

(***************************************************************************)
(* Claims about propagation on the master.                                 *)
(***************************************************************************)
\* the SET commands written to replica connection r, in the order of the writes
SetCmds(r) ==
    LET fs == SelectSeq(out[r], IsSetFrame)
    IN  [i \in 1..Len(fs) |-> fs[i].cmd]

\* the program counters of a handler between applying a SET and answering it
SetPcs == {"set_offset", "set_lock", "set_send"}

\* C1: for every replica connection and at every moment, the sequence of commands
\* written to that connection is a prefix of the sequence of all client mutations
\* applied to the store, in the order in which they were applied.
C1_ReplicaStreamIsPrefixOfCommits ==
    \A r \in Replicas : IsPrefix(SetCmds(r), commitLog)

\* C2: the three steps of one client SET are covered by one lock: no other handler is
\* between its own apply and its own reply at the same time, and two SETs written to a
\* replica are written in the order in which they were applied to the store.
C2_SetStepsUnderOneLock ==
    /\ \A c, d \in Clients : (c # d /\ pc[c] \in SetPcs) => pc[d] \notin SetPcs
    /\ \A r \in Replicas : \A i, j \in 1..Len(commitLog) :
          (i < j /\ Position(SetCmds(r), commitLog[i]) # 0
                 /\ Position(SetCmds(r), commitLog[j]) # 0)
            => Position(SetCmds(r), commitLog[i]) < Position(SetCmds(r), commitLog[j])

\* C3: any two SET commands that two replica connections both receive are written in
\* the same relative order on both connections.
C3_SameOrderOnAllReplicas ==
    \A r1, r2 \in Replicas : \A i, j \in 1..Len(SetCmds(r1)) :
        (i < j /\ Position(SetCmds(r2), SetCmds(r1)[i]) # 0
               /\ Position(SetCmds(r2), SetCmds(r1)[j]) # 0)
          => Position(SetCmds(r2), SetCmds(r1)[i]) < Position(SetCmds(r2), SetCmds(r1)[j])

\* both replicas have received the SETs of two different clients
C3_Witness ==
    \A r \in Replicas :
        /\ Len(SetCmds(r)) = 2
        /\ SetCmds(r)[1].key # SetCmds(r)[2].key

(***************************************************************************)
(* Claims about WAIT.                                                      *)
(***************************************************************************)
\* the last frame written to connection c
LastOut(c) == out[c][Len(out[c])]

\* handler c has a WAIT in hand
HasWait(c) == req[c].some /\ req[c].x.v = "Wait"

\* handler c leaves the arm of WAIT for offset 0 in this step
WaitCountStep(c) == pc[c] = "wait_count" /\ pc'[c] # "wait_count"

\* handler c leaves the arm of WAIT for a non-zero offset in this step
WaitStopStep(c) == pc[c] \in {"wait_getacks", "wait_join"} /\ pc'[c] = "read"

\* C7: a WAIT read while the replication offset is 0 is answered with the Integer equal
\* to the length of the replica list at the time of the reply, whatever n is; its handler
\* spawns no task and its reply step writes nothing to any replica connection.
C7_WaitAtOffsetZero ==
    [][\A c \in Clients :
          /\ (pc[c] = "read" /\ HasWait(c)' /\ pc'[c] # "read" /\ repl_offset = 0)
                => pc'[c] = "wait_count"
          /\ pc'[c] = "wait_count" => (tasks'[c] = <<>> /\ master_repl_offset'[c] = 0)
          /\ WaitCountStep(c) =>
                /\ pc'[c] = "read"
                /\ out'[c] = Append(out[c], RespFrame(Integer(Len(repl_conns))))
                /\ \A r \in Replicas : out'[r] = out[r]]_vars

\* a WAIT for fewer replicas than are attached was answered at offset 0 with their number
C7_Witness ==
    \E c \in Clients :
        /\ pc[c] = "read" /\ HasWait(c)
        /\ repl_offset = 0
        /\ Len(repl_conns) = 2
        /\ req[c].x.repl_ack_num < 2
        /\ LastOut(c) = RespFrame(Integer(2))
        /\ \A r \in Replicas : Len(out[r]) = 2

\* C8 (as stated): a WAIT at a non-zero offset has sent GETACK to every connection of
\* the replica list when it stops, replies with the number of ACK replies read, and
\* stops only because that number has reached n or because the timeout has elapsed.
C8_WaitAsStated ==
    [][\A c \in Clients : WaitStopStep(c) =>
          /\ Range(repl_conns) \subseteq GetAckSent(c)
          /\ out'[c] = Append(out[c], RespFrame(Integer(Cardinality(AckRead(c)))))
          /\ (ack_num[c] >= req[c].x.repl_ack_num \/ timed_out'[c])]_vars

\* C8 (amended): a WAIT at a non-zero offset starts one exchange per connection that is
\* in the replica list when it takes the list; it sends GETACK to no other connection;
\* it replies with the number of exchanges it has collected that read an ACK, which is at
\* most n and at most the number of ACK replies read; it stops when that number has
\* reached n, when every exchange has been collected, or when the timeout has elapsed,
\* and if it stops for the second reason every connection it took has been sent GETACK.
C8_WaitCollectsAcks ==
    [][\A c \in Clients :
          /\ (pc[c] = "wait_getacks" /\ pc'[c] = "wait_join")
                => DOMAIN tasks'[c] = Range(repl_conns)
          /\ WaitStopStep(c) =>
                /\ GetAckSent(c) \subseteq Range(repl_conns)
                /\ out'[c] = Append(out[c], RespFrame(Integer(ack_num[c])))
                /\ ack_num[c] = Cardinality({r \in DOMAIN tasks[c] : tasks[c][r] = "joined_ack"})
                /\ ack_num[c] <= Cardinality(AckRead(c))
                /\ ack_num[c] <= req[c].x.repl_ack_num
                /\ \/ ack_num[c] = req[c].x.repl_ack_num
                   \/ timed_out'[c]
                   \/ (Joined(c) = DOMAIN tasks[c] /\ GetAckSent(c) = DOMAIN tasks[c])]_vars

\* a WAIT 1 at a non-zero offset was answered 1 before its timeout while two replicas
\* had been sent GETACK
C8_Witness ==
    \E c \in Clients :
        /\ pc[c] = "read" /\ HasWait(c) /\ ~timed_out[c]
        /\ req[c].x.repl_ack_num = 1
        /\ LastOut(c) = RespFrame(Integer(1))
        /\ \A r \in Replicas : \E i \in 1..Len(out[r]) : IsGetAckFrame(out[r][i])

\* the steps of handler c that wait for no peer: they need only a free lock, a finished
\* task or the timer
HandlerProgress(c) ==
    \/ SetOffset(c) \/ SetLockReplicas(c) \/ SetSend(c) \/ SetReply(c)
    \/ WaitCount(c) \/ WaitSpawn(c) \/ WaitJoin(c) \/ WaitFinish(c) \/ WaitTimeout(c)
    \/ \E r \in Replicas : TaskSend(c, r)

\* The runtime keeps polling every task that can make progress, and a timer that has
\* been armed fires.  Nothing is assumed of the peers: a client need not send another
\* request, a replica need not answer.
FairSpec == Init /\ [][Next]_vars /\ \A c \in Clients : WF_vars(HandlerProgress(c))

\* the program counters of a handler inside the arm of WAIT
WaitPcs == {"wait_count", "wait_getacks", "wait_join"}

\* C9: every WAIT that has been read is eventually answered; when the deadline passes
\* first, the exchanges still in flight are cancelled (their tasks are gone and none of
\* them holds a connection any more) and the reply is the count of ACKs collected so
\* far, even if some replica never answers its GETACK.
C9_WaitIsAnswered ==
    /\ [][\A c \in Clients : (WaitStopStep(c) /\ timed_out'[c]) =>
              /\ out'[c] = Append(out[c], RespFrame(Integer(ack_num[c])))
              /\ tasks'[c] = <<>>
              /\ \A r \in Replicas : connLock'[r] # c]_vars
    /\ \A c \in Clients : (pc[c] \in WaitPcs) ~> (pc[c] = "read")

\* a WAIT 2 was answered 0 at its deadline while a replica has not read its GETACK
C9_Witness ==
    \E c \in Clients :
        /\ pc[c] = "read" /\ HasWait(c) /\ timed_out[c]
        /\ req[c].x.repl_ack_num = 2
        /\ LastOut(c) = RespFrame(Integer(0))
        /\ \E r \in Replicas : \E i \in (rpos[r] + 1)..Len(out[r]) : IsGetAckFrame(out[r][i])

(***************************************************************************)
(* Claims about PSYNC.                                                     *)
(***************************************************************************)
\* C10: a connection in the replica list has been sent SimpleString
\* FULLRESYNC <repl-id> 0 and then the snapshot as bulk-string header and payload with no
\* trailing CR-LF, both before it entered the list; its handler has left its loop and
\* never reads from it again.
C10_PSyncHandsOver ==
    [][\A c \in Conns :
          /\ c \in Range(repl_conns') =>
                /\ pc'[c] = "exited"
                /\ Len(out'[c]) >= 2
                /\ FrameBytes(out'[c][1]) =
                       <<43>> \o B_FULLRESYNC \o <<32>> \o REPL_ID \o <<32, 48>> \o CRLF
                /\ FrameBytes(out'[c][2]) =
                       <<36>> \o NatToBytes(Len(EMPTY_RDB)) \o CRLF \o EMPTY_RDB
          /\ (c \in Range(repl_conns') /\ c \notin Range(repl_conns))
                => (pc[c] = "psync_attach" /\ out'[c] = out[c])
          /\ pc[c] = "exited" => (pc'[c] = "exited" /\ nread'[c] = nread[c] /\ req'[c] = req[c])]_vars

\* a replica was attached and commands were written to its connection afterwards
C10_Witness ==
    \E c \in Range(repl_conns) : pc[c] = "exited" /\ nread[c] = 1 /\ Len(out[c]) > 2

(***************************************************************************)
(* A replica from its first byte, against a peer that answers each command *)
(* of the handshake with one reply of its choice, may close the connection *)
(* at any time, and may send anything after PSYNC.                         *)
(***************************************************************************)
MaxHsFrames == 7

\* the peer has closed the connection of r
PeerClosed(r) == Len(out[r]) > 0 /\ out[r][Len(out[r])] = EofFrame

\* what the peer may write to the connection of r next
PeerFrames(r) ==
    IF rstate[r] \in {"hs_send", "hs_recv"}
    THEN IF Len(out[r]) < Len(sentAcks[r])
         THEN {RespFrame(SimpleString(B_PONG)), RespFrame(SimpleString(B_OK)),
               RespFrame(SimpleError(B_ERR)), EofFrame}
         ELSE {EofFrame}
    ELSE {RespFrame(SimpleString(FullResyncText)), RdbFrame,
          CmdFrame(Set(K_k, <<97>>, NoneOpt)), CmdFrame(ReplConf(GetAck)), EofFrame}

EnvPeerSend(r) ==
    /\ Len(out[r]) < MaxHsFrames
    /\ ~PeerClosed(r)
    /\ \E f \in PeerFrames(r) : out' = [out EXCEPT ![r] = Append(@, f)]
    /\ UNCHANGED <<masterVars, replicaVars, dbVars, extVars>>

InitHandshake ==
    /\ InitMaster
    /\ rstate = [c \in Conns |-> "hs_send"]
    /\ rpos = [c \in Conns |-> 0]
    /\ r_offset = [c \in Conns |-> 0]
    /\ r_store = [c \in Conns |-> <<>>]
    /\ sentAcks = [c \in Conns |-> <<>>]
    /\ hs_buf = [c \in Conns |-> <<>>]

NextHandshake == EnvPeerSend("r1") \/ HsSend("r1") \/ HsRecv("r1") \/ ReplicaRead("r1")

SpecHandshake == InitHandshake /\ [][NextHandshake]_vars

\* the bytes of the first n commands of the handshake
HsBytes(n) == [i \in 1..n |-> ArgsToBytes(
                  CASE i = 1 -> <<B_PING>>
                    [] i = 2 -> <<B_REPLCONF, B_listening_port, NatToBytes(ReplicaPort)>>
                    [] i = 3 -> <<B_REPLCONF, B_capa, B_psync2>>
                    [] OTHER -> <<B_PSYNC, B_qmark, B_minus1>>)]

\* the number of handshake commands replica r has sent
HsSentNum(r) == IF Len(sentAcks[r]) < Len(HsSteps) THEN Len(sentAcks[r]) ELSE Len(HsSteps)

\* replica r has applied or answered a replicated command
HasApplied(r) == r_store[r] # <<>> \/ r_offset[r] > 0 \/ Len(sentAcks[r]) > Len(HsSteps)

\* C11: the replica sends PING, REPLCONF listening-port <port>, REPLCONF capa psync2 and
\* PSYNC ? -1 in this order; it has sent step j + 1 only if it has received the expected
\* reply (+PONG, +OK, +OK) to step j; it applies replicated commands only after it has
\* consumed +FULLRESYNC and the snapshot.
C11_HandshakeInOrder ==
    /\ \A j \in 1..HsSentNum("r1") : FrameBytes(sentAcks["r1"][j]) = HsBytes(j)[j]
    /\ \A j \in 1..(HsSentNum("r1") - 1) :
          /\ rpos["r1"] >= j
          /\ FrameBytes(out["r1"][j]) = <<43>> \o HsReplies[j] \o CRLF
    /\ HasApplied("r1") =>
          /\ rstate["r1"] = "watching"
          /\ rpos["r1"] >= Len(HsSteps) + 1
          /\ out["r1"][Len(HsSteps)] = RespFrame(SimpleString(FullResyncText))
          /\ out["r1"][Len(HsSteps) + 1] = RdbFrame

(***************************************************************************)
(* The master with one replica and two clients that each send one SET of   *)
(* the same key.                                                           *)
(***************************************************************************)
\* the one request of client c: SET k <value of c>
SameKeyCommands(c) ==
    IF pc[c] = "read" /\ nread[c] = 0
    THEN {from_bytes(ArgsToBytes(<<B_SET, K_k, ReqValue(c, 1)>>)).cmd}
    ELSE {}

\* replica r1 has sent PSYNC and is in the replica list before any client request
InitSameKey ==
    /\ pc = [c \in Conns |-> IF c = "r1" THEN "exited" ELSE "read"]
    /\ req = [c \in Conns |-> IF c = "r1" THEN Some(PSync(NoneOpt, NoneOpt)) ELSE NoneOpt]
    /\ nread = [c \in Conns |-> IF c = "r1" THEN 1 ELSE 0]
    /\ store = <<>>
    /\ commitLog = <<>>
    /\ repl_offset = 0
    /\ repl_conns = <<"r1">>
    /\ replLock = "free"
    /\ connLock = [c \in Conns |-> "free"]
    /\ out = [c \in Conns |-> IF c = "r1"
                                THEN <<RespFrame(SimpleString(FullResyncText)), RdbFrame>>
                                ELSE <<>>]
    /\ iter = [c \in Conns |-> 1]
    /\ master_repl_offset = [c \in Conns |-> 0]
    /\ ack_num = [c \in Conns |-> 0]
    /\ timed_out = [c \in Conns |-> FALSE]
    /\ tasks = [c \in Conns |-> <<>>]
    /\ inPos = [c \in Conns |-> 0]
    /\ InitDb
    /\ InitExt
    /\ InitReplicaPeers

NextSameKey ==
    \/ \E c \in Clients :
          \/ SetStoreOf(c, SameKeyCommands(c))
          \/ SetOffset(c) \/ SetLockReplicas(c) \/ SetSend(c) \/ SetReply(c)
    \/ ReplicaRead("r1")

SpecSameKey == InitSameKey /\ [][NextSameKey]_vars

\* every SET of the clients has been acknowledged, was written to replica r, and r has
\* processed everything written to it
Settled(r) ==
    /\ \A c \in Clients : pc[c] = "read" /\ nread[c] = 1
    /\ \A i \in 1..Len(commitLog) : Position(SetCmds(r), commitLog[i]) # 0
    /\ rstate[r] = "watching"
    /\ rpos[r] = Len(out[r])

\* C12: with a replica that completed its handshake before the SETs and whose connection
\* stays healthy, once the master has acknowledged the SETs of key k and the replica has
\* read what was written to it, GET k on the replica returns the value of the last SET
\* the master applied to k.
C12_ReplicaReturnsAcknowledgedValue ==
    Settled("r1") =>
        ReplicaGetReply(r_store["r1"], K_k, FALSE) = BulkString(store[K_k].value)


(***************************************************************************)
(* db/trie.rs: the 16-ary nibble trie.  A key is a u64; the model keeps    *)
(* KeyChars nibbles of it (the source has 16), so U64_MAX is the largest   *)
(* key.  A trie is the function from its keys to their values: insert is   *)
(* the only mutation, it creates every node on the path of its key and     *)
(* sets the value of the last one, so a node exists exactly when its path  *)
(* is a prefix of a key, and only nodes at depth KeyChars hold values.     *)
(* A node is named by its path from the root.                              *)
(***************************************************************************)
\* u64 << n, for n below the width
Shl(x, n) == (x * 2 ^ n) % (U64_MAX + 1)

u64_to_chars(val) ==
    [i \in 1..KeyChars |-> (val \div (CHARSET_SIZE ^ (KeyChars - i))) % CHARSET_SIZE]

\* chars.into_iter().fold(0u64, |acc, c| (acc << CHAR_BITSIZE) + c as u64)
RECURSIVE FoldChars(_)
FoldChars(chars) ==
    IF Len(chars) = 0 THEN 0
    ELSE Shl(FoldChars(Take(chars, Len(chars) - 1)), CHAR_BITSIZE) + chars[Len(chars)]

TrieNew == <<>>

TrieInsert(t, key, value) == [k \in DOMAIN t \cup {key} |-> IF k = key THEN value ELSE t[k]]

contains_key(t, key) == key \in DOMAIN t

\* node.children[idx].is_some(), for the node at path p
IsSomeChild(t, p, idx) ==
    \E k \in DOMAIN t : IsPrefix(Append(p, idx), u64_to_chars(k))

\* node.value.is_some(), for the node at path p
HasValue(t, p) == Len(p) = KeyChars /\ FoldChars(p) \in DOMAIN t

\* the elements of a finite set of numbers in ascending order
RECURSIVE Ascending(_)
Ascending(S) ==
    IF S = {} THEN <<>>
    ELSE TheOne({ <<m>> \o Ascending(S \ {m}) : m \in {CHOOSE x \in S : \A y \in S : x <= y} })

\* TrieNode::get_all of the node at path p: depth-first, children in ascending
\* order, so the values below p in ascending key order, each with its chars
\* relative to p; `at` names the key whose value it is
get_all(t, p) ==
    TheOne({ [i \in 1..Len(ks) |-> [chars |-> Drop(u64_to_chars(ks[i]), Len(p)), at |-> ks[i]]]
             : ks \in {Ascending({k \in DOMAIN t : IsPrefix(p, u64_to_chars(k))})} })

\* get_all of the node at path p, each item keyed by
\* (chars << (CHAR_BITSIZE * _chars.len())) + fold(_chars)
KeyedAll(t, p, chars) ==
    TheOne({ [i \in 1..Len(ga) |->
                 [key |-> Shl(chars, CHAR_BITSIZE * Len(ga[i].chars)) + FoldChars(ga[i].chars),
                  at |-> ga[i].at]]
             : ga \in {get_all(t, p)} })

\* children[lo..=hi].iter().position(is_some), as the index of the child
FirstSome(t, p, lo, hi) ==
    IF \E i \in lo..hi : IsSomeChild(t, p, i)
    THEN Some(CHOOSE i \in lo..hi : IsSomeChild(t, p, i)
                                    /\ \A j \in lo..(i - 1) : ~IsSomeChild(t, p, j))
    ELSE NoneOpt

\* children[lo..=hi].iter().rev().position(is_some), as the index of the child
LastSome(t, p, lo, hi) ==
    IF \E i \in lo..hi : IsSomeChild(t, p, i)
    THEN Some(CHOOSE i \in lo..hi : IsSomeChild(t, p, i)
                                    /\ \A j \in (i + 1)..hi : ~IsSomeChild(t, p, j))
    ELSE NoneOpt

\* the loop of traverse_to_common_node from char i on, at the node at path p.
\* The slice children[s..=e] panics when s > e + 1 and is empty when s = e + 1.
RECURSIVE TraverseFrom(_, _, _, _, _, _)
TraverseFrom(t, sc, ec, i, p, common_chars) ==
    IF i > KeyChars
    THEN [k |-> "some", node |-> p, cpair |-> NoneOpt, common_chars |-> common_chars,
          start_chars |-> <<>>, end_chars |-> <<>>]
    ELSE IF sc[i] > ec[i] + 1 THEN [k |-> "panic"]
    ELSE TheOne({
        IF ~s.some THEN [k |-> "none"]
        ELSE TheOne({
            IF s.x # e.x
            THEN [k |-> "some", node |-> p, cpair |-> Some(<<s.x, e.x>>),
                  common_chars |-> common_chars,
                  start_chars |-> SubSeq(sc, i + 1, KeyChars),
                  end_chars |-> SubSeq(ec, i + 1, KeyChars)]
            ELSE TraverseFrom(t, sc, ec, i + 1, Append(p, s.x),
                              Shl(common_chars, CHAR_BITSIZE) + s.x)
            : e \in {LastSome(t, p, s.x, ec[i])} })
        : s \in {FirstSome(t, p, sc[i], ec[i])} })

traverse_to_common_node(t, start, end) ==
    TraverseFrom(t, u64_to_chars(start), u64_to_chars(end), 1, <<>>, 0)


\* the existing children of the node at path p with index in lo..hi, pushed
\* in descending index order as (chars, child)
RECURSIVE PushDescending(_, _, _, _, _)
PushDescending(t, p, chars, lo, hi) ==
    IF hi < lo THEN <<>>
    ELSE (IF IsSomeChild(t, p, hi) THEN <<[chars |-> chars, node |-> Append(p, hi)]>> ELSE <<>>)
         \o PushDescending(t, p, chars, lo, hi - 1)

\* while let Some((chars, n)) = stack.pop() { data.append(items of n) }
RECURSIVE PopAll(_, _)
PopAll(t, stack) ==
    IF Len(stack) = 0 THEN <<>>
    ELSE KeyedAll(t, stack[Len(stack)].node, stack[Len(stack)].chars)
         \o PopAll(t, Take(stack, Len(stack) - 1))

\* the loop of collect_values_along_path_to_start followed by the emptying of
\* its stack; p is the path of `node`, char the child to step to
RECURSIVE PathToStart(_, _, _, _, _, _, _, _)
PathToStart(t, p, char, remaining_start_chars, common_chars, has_passed_first_iter, data, stack) ==
    TheOne({
        TheOne({
            IF Len(remaining_start_chars) = 0 THEN st.data \o PopAll(t, st.stack)
            ELSE TheOne({
                IF ~c.some THEN st.data \o PopAll(t, st.stack)
                ELSE PathToStart(t, st.node, c.x, Tail(remaining_start_chars), st.chars,
                                 TRUE, st.data, st.stack)
                : c \in {FirstSome(t, st.node, Head(remaining_start_chars),
                                   CHARSET_SIZE - 1)} })
            : st \in {[node |-> node, chars |-> chars,
                       stack |-> IF has_passed_first_iter
                                 THEN stack \o PushDescending(t, node, chars, char + 1,
                                                              CHARSET_SIZE - 1)
                                 ELSE stack,
                       data |-> IF HasValue(t, node)
                                THEN Append(data, [key |-> chars, at |-> FoldChars(node)])
                                ELSE data]} })
        : node \in {Append(p, char)},
          chars \in {Shl(common_chars, CHAR_BITSIZE) + char} })

collect_values_along_path_to_start(t, common_node, start_char, remaining_start_chars, common_chars) ==
    PathToStart(t, common_node, start_char, remaining_start_chars, common_chars, FALSE,
                <<>>, <<>>)

\* for c in lo..hi: the items of every existing child c of the node at path
\* p, keyed from (common_chars << CHAR_BITSIZE) + c
RECURSIVE ChildrenItems(_, _, _, _, _)
ChildrenItems(t, p, common_chars, lo, hi) ==
    IF hi < lo THEN <<>>
    ELSE (IF IsSomeChild(t, p, lo)
          THEN KeyedAll(t, Append(p, lo), Shl(common_chars, CHAR_BITSIZE) + lo)
          ELSE <<>>)
         \o ChildrenItems(t, p, common_chars, lo + 1, hi)

collect_values_between_start_and_end(t, common_node, start_char, end_char, common_chars) ==
    ChildrenItems(t, common_node, common_chars, start_char + 1, end_char - 1)

\* the loop of collect_values_along_path_to_end
RECURSIVE PathToEnd(_, _, _, _, _, _)
PathToEnd(t, p, char, remaining_end_chars, common_chars, has_passed_first_iter) ==
    TheOne({
        TheOne({
            IF Len(remaining_end_chars) = 0 THEN data
            ELSE TheOne({
                IF ~c.some THEN data
                ELSE data \o PathToEnd(t, node, c.x, Tail(remaining_end_chars), chars, TRUE)
                : c \in {LastSome(t, node, 0, Head(remaining_end_chars))} })
            : data \in {(IF has_passed_first_iter
                         THEN ChildrenItems(t, node, chars, 0, char - 1)
                         ELSE <<>>)
                        \o (IF HasValue(t, node)
                            THEN <<[key |-> chars, at |-> FoldChars(node)]>>
                            ELSE <<>>)} })
        : node \in {Append(p, char)},
          chars \in {Shl(common_chars, CHAR_BITSIZE) + char} })

collect_values_along_path_to_end(t, common_node, end_char, remaining_end_chars, common_chars) ==
    PathToEnd(t, common_node, end_char, remaining_end_chars, common_chars, FALSE)

\* Trie::get_range_incl: [k |-> "ok", items], or [k |-> "panic"] when a slice
\* index of traverse_to_common_node is out of range
get_range_incl(t, start, end) ==
    TheOne({
        IF a.k = "panic" THEN [k |-> "panic"]
        ELSE IF a.k = "none" THEN [k |-> "ok", items |-> <<>>]
        ELSE IF a.cpair.some
        THEN [k |-> "ok",
              items |->
                  collect_values_along_path_to_start(t, a.node, a.cpair.x[1], a.start_chars,
                                                     a.common_chars)
                  \o collect_values_between_start_and_end(t, a.node, a.cpair.x[1],
                                                          a.cpair.x[2], a.common_chars)
                  \o (IF a.cpair.x[2] > a.cpair.x[1]
                      THEN collect_values_along_path_to_end(t, a.node, a.cpair.x[2],
                                                            a.end_chars, a.common_chars)
                      ELSE <<>>)]
        ELSE [k |-> "ok", items |-> KeyedAll(t, a.node, a.common_chars)]
        : a \in {traverse_to_common_node(t, start, end)} })


(***************************************************************************)
(* db/stream.rs.  An entry ID is [millis, seq_num]; a requested ID is      *)
(* NoneOpt for "*" and Some([millis, seq_num]) otherwise, with seq_num an  *)
(* option.  The field/value bag of an entry is a sequence of pairs.        *)
(***************************************************************************)
ERR_ZERO == "ERR The ID specified in XADD must be greater than 0-0"
ERR_TOP == "ERR The ID specified in XADD is equal or smaller than the target stream top item"

Ok(x) == [k |-> "ok", x |-> x]
Err(msg) == [k |-> "err", msg |-> msg]
Panic == [k |-> "panic"]

\* last_entry.seq_num + 1 on u64: a build with overflow checks panics on
\* overflow, a build without them wraps
AddOne(n) == IF n = U64_MAX THEN {Panic, Ok(0)} ELSE {Ok(n + 1)}

\* wall-clock milliseconds since the epoch that SystemTime::now can give
WallClock == {1, 17}

\* make_stream_entry_id: the set of its possible results
make_stream_entry_id(entry, last_entry) ==
    IF entry.some
    THEN IF entry.x.millis = 0 /\ entry.x.seq_num.some /\ entry.x.seq_num.x = 0
         THEN {Err(ERR_ZERO)}
         ELSE IF entry.x.millis < last_entry.millis THEN {Err(ERR_TOP)}
         ELSE IF entry.x.millis = last_entry.millis
         THEN IF entry.x.seq_num.some
              THEN IF entry.x.seq_num.x > last_entry.seq_num
                   THEN {Ok(StreamEntryID(entry.x.millis, entry.x.seq_num.x))}
                   ELSE {Err(ERR_TOP)}
              ELSE { IF n.k = "ok" THEN Ok(StreamEntryID(entry.x.millis, n.x)) ELSE n
                     : n \in AddOne(last_entry.seq_num) }
         ELSE {Ok(StreamEntryID(entry.x.millis,
                                IF entry.x.seq_num.some THEN entry.x.seq_num.x ELSE 0))}
    ELSE IF last_entry.millis = 0 /\ last_entry.seq_num = 0
    THEN {Ok(StreamEntryID(now, 0)) : now \in WallClock}
    ELSE { IF n.k = "ok" THEN Ok(StreamEntryID(last_entry.millis, n.x)) ELSE n
           : n \in AddOne(last_entry.seq_num) }

\* RedisStream::new
RedisStreamNew == [root |-> TrieNew, last_entry |-> StreamEntryID(0, 0)]

\* RedisStream::insert once make_stream_entry_id has returned Ok(entry_id)
StreamInsert(stream, entry_id, data) ==
    TheOne({ [root |-> TrieInsert(root, entry_id.millis,
                                  TrieInsert(root[entry_id.millis], entry_id.seq_num, data)),
              last_entry |-> entry_id]
             : root \in {IF contains_key(stream.root, entry_id.millis) THEN stream.root
                         ELSE TrieInsert(stream.root, entry_id.millis, TrieNew)} })

\* the entries of one millis of the outer scan: (entry_id bytes, kv_pairs)
SeqEntries(millis, trie, items) ==
    [i \in 1..Len(items) |->
        [id |-> NatToBytes(millis) \o <<45>> \o NatToBytes(items[i].key),
         kvs |-> trie[items[i].at]]]

\* the flat_map of RedisStream::xrange over the outer items from the i-th on
RECURSIVE XRangeFrom(_, _, _, _, _)
XRangeFrom(stream, start, end, outer, i) ==
    IF i > Len(outer) THEN Ok(<<>>)
    ELSE TheOne({
        TheOne({
            IF inner.k = "panic" THEN Panic
            ELSE TheOne({
                IF rest.k = "panic" THEN Panic
                ELSE Ok(SeqEntries(millis, stream.root[outer[i].at], inner.items) \o rest.x)
                : rest \in {XRangeFrom(stream, start, end, outer, i + 1)} })
            : inner \in {get_range_incl(stream.root[outer[i].at],
                                        IF millis = start.millis THEN start.seq_num ELSE 0,
                                        IF millis = end.millis THEN end.seq_num
                                        ELSE U64_MAX)} })
        : millis \in {outer[i].key} })

\* RedisStream::xrange: Ok(entries), or Panic
StreamXRange(stream, start, end) ==
    TheOne({ IF outer.k = "panic" THEN Panic
             ELSE XRangeFrom(stream, start, end, outer.items, 1)
             : outer \in {get_range_incl(stream.root, start.millis, end.millis)} })

\* RedisStream::xread; start.millis + 1 overflows like AddOne
StreamXRead(stream, start) ==
    IF start.seq_num = U64_MAX
    THEN { IF n.k = "ok"
           THEN StreamXRange(stream, StreamEntryID(n.x, 0), StreamEntryID(U64_MAX, U64_MAX))
           ELSE n : n \in AddOne(start.millis) }
    ELSE {StreamXRange(stream, StreamEntryID(start.millis, start.seq_num + 1),
                       StreamEntryID(U64_MAX, U64_MAX))}


(***************************************************************************)
(* db/mod.rs, server/store.rs and the XADD, XRANGE and XREAD arms of       *)
(* MasterServer::handle_conn.  Every RedisStore method takes the database  *)
(* lock for one RedisDb operation, so each is one step.  The commands are  *)
(* taken as Command::from_bytes returns them.  An error message stands for *)
(* its bytes.                                                              *)
(***************************************************************************)
S_s == <<115>>
S_t == <<116>>
StreamKeys == {S_s, S_t}

\* entries the database holds in a run, over all streams
MaxEntries == 2

\* the field/value pairs of the XADD requests, as kv_pairs lists them
XDatas == {<<K_k, <<97>>>>}

\* entry IDs the XADD requests ask for: *, 0-0, 0-*, 1-1, 1-<max>, 2-0, 16-0
XAddIds ==
    {NoneOpt, ReqStreamEntryID(0, Some(0)), ReqStreamEntryID(0, NoneOpt),
     ReqStreamEntryID(1, Some(1)), ReqStreamEntryID(1, Some(U64_MAX)),
     ReqStreamEntryID(2, Some(0)), ReqStreamEntryID(16, Some(0))}

\* start and end arguments of the XRANGE requests: -, 1, 1-1, 17-0 and
\* +, 1, 1-1, 17
XRangeStarts ==
    {StreamEntryID(0, 0), StreamEntryID(1, 0), StreamEntryID(1, 1), StreamEntryID(17, 0)}
XRangeEnds ==
    {StreamEntryID(U64_MAX, U64_MAX), StreamEntryID(1, U64_MAX), StreamEntryID(1, 1),
     StreamEntryID(17, U64_MAX)}

\* streams arguments of the XREAD requests
XReadArgs ==
    {<<XReadStreamArg(S_s, StreamEntryID(0, 0))>>,
     <<XReadStreamArg(S_s, StreamEntryID(1, 0))>>,
     <<XReadStreamArg(S_s, StreamEntryID(0, 0)), XReadStreamArg(S_t, StreamEntryID(0, 0))>>}

\* the sum of f over S
RECURSIVE SumOver(_, _)
SumOver(f, S) ==
    IF S = {} THEN 0
    ELSE TheOne({ f[x] + SumOver(f, S \ {x}) : x \in {CHOOSE y \in S : TRUE} })

\* number of entries of a stream, and of the database
StreamLen(stream) ==
    SumOver([m \in DOMAIN stream.root |-> Cardinality(DOMAIN stream.root[m])],
            DOMAIN stream.root)

EntryCount == SumOver([key \in DOMAIN streams |-> StreamLen(streams[key])], DOMAIN streams)

\* receivers of the broadcast channel of key that are alive: a receiver
\* lives in its task until the task finishes or is aborted
Receivers(key) ==
    {<<c, i>> \in Clients \X (1..Cardinality(StreamKeys)) :
        i <= Len(xtasks[c]) /\ xtasks[c][i].key = key /\ ~xtasks[c][i].done}

\* broadcast::Sender::send on a channel of capacity 1: each live receiver
\* has one more value to receive; a receiver that had one already has lost it
Deliver(key, msg) ==
    [c \in Clients |->
        [i \in 1..Len(xtasks[c]) |->
            IF xtasks[c][i].key = key /\ ~xtasks[c][i].done
            THEN [xtasks[c][i] EXCEPT !.msg = Some(msg),
                                      !.lagged = xtasks[c][i].msg.some]
            ELSE xtasks[c][i]]]

ERR_SEND == "channel closed"

\* RedisDb::xadd once make_stream_entry_id has returned r:
\* the result, the streams and the tasks afterwards
DbXAdd(key, r, data) ==
    IF r.k # "ok" THEN [res |-> r, streams |-> streams, xtasks |-> xtasks]
    ELSE TheOne({
        IF key \in stream_senders
        THEN IF Receivers(key) = {}
             THEN [res |-> Err(ERR_SEND), streams |-> after, xtasks |-> xtasks]
             ELSE [res |-> r, streams |-> after,
                   xtasks |-> Deliver(key, [entry_id |-> r.x, data |-> data])]
        ELSE [res |-> r, streams |-> after, xtasks |-> xtasks]
        : after \in {[k \in DOMAIN streams \cup {key} |->
                         IF k = key
                         THEN StreamInsert(IF key \in DOMAIN streams THEN streams[key]
                                           ELSE RedisStreamNew, r.x, data)
                         ELSE streams[k]]} })

LastEntry(key) ==
    IF key \in DOMAIN streams THEN streams[key].last_entry ELSE RedisStreamNew.last_entry

\* the XREAD handler of c is inside block_read
Blocked(c) == xargs[c].some

XReadKeys(c) == {xargs[c].x[i].key : i \in 1..Len(xargs[c].x)}

\* Command::XAdd: store.xadd, then send_bulk_string or send_simple_error; a
\* panic ends the handler task without a reply
XAdd(c) ==
    /\ ~Blocked(c)
    /\ EntryCount < MaxEntries
    /\ \E key \in StreamKeys, entry \in XAddIds, data \in XDatas :
       \E r \in make_stream_entry_id(entry, LastEntry(key)) :
       \E d \in {DbXAdd(key, r, data)} :
          /\ streams' = d.streams
          /\ xtasks' = d.xtasks
          /\ xids' = IF d.res.k = "ok"
                     THEN [k \in DOMAIN xids \cup {key} |->
                              IF k = key
                              THEN (IF key \in DOMAIN xids THEN xids[key] ELSE <<>>)
                                   \o <<d.res.x>>
                              ELSE xids[k]]
                     ELSE xids
          /\ xappended' = [b \in Clients |->
                              IF d.res.k = "ok" /\ Blocked(b) /\ key \in XReadKeys(b)
                              THEN xappended[b] \cup {[key |-> key, id |-> as_bytes(d.res.x)]}
                              ELSE xappended[b]]
          /\ xlast' = Some([op |-> "XADD", c |-> c, key |-> key, entry |-> entry,
                            before |-> streams, last_entry |-> LastEntry(key),
                            reply |-> IF d.res.k = "ok" THEN BulkString(as_bytes(d.res.x))
                                      ELSE IF d.res.k = "err" THEN SimpleError(d.res.msg)
                                      ELSE NoneOpt])
    /\ UNCHANGED <<extVars, masterVars, out, replicaVars, stream_senders, xargs>>


\* the reply array of one entry list: [[id, [f, v, ...]], ...]
EntriesResp(entries) ==
    Array([i \in 1..Len(entries) |->
              Array(<<BulkString(entries[i].id),
                      Array([j \in 1..Len(entries[i].kvs) |->
                                BulkString(entries[i].kvs[j])])>>)])

\* RedisDb::xrange
DbXRange(key, start, end) ==
    IF key \in DOMAIN streams THEN StreamXRange(streams[key], start, end) ELSE Ok(<<>>)

\* Command::XRange: store.xrange, then send_resp
XRange(c) ==
    /\ ~Blocked(c)
    /\ \E key \in StreamKeys, start \in XRangeStarts, end \in XRangeEnds :
       \E r \in {DbXRange(key, start, end)} :
          xlast' = Some([op |-> "XRANGE", c |-> c, key |-> key, start |-> start,
                         end |-> end,
                         reply |-> IF r.k = "ok" THEN EntriesResp(r.x) ELSE NoneOpt])
    /\ UNCHANGED <<extVars, masterVars, out, replicaVars, streams, stream_senders, xtasks, xargs,
                   xappended, xids>>

\* RedisDb::xread from the i-th argument on: the set of its possible results
RECURSIVE DbXReadFrom(_, _)
DbXReadFrom(args, i) ==
    IF i > Len(args) THEN {Ok(<<>>)}
    ELSE { IF one.k = "panic" \/ rest.k = "panic" THEN Panic
           ELSE Ok(<<[key |-> args[i].key, entries |-> one.x]>> \o rest.x)
           : one \in (IF args[i].key \in DOMAIN streams
                      THEN StreamXRead(streams[args[i].key], args[i].start)
                      ELSE {Ok(<<>>)}),
             rest \in DbXReadFrom(args, i + 1) }

DbXRead(args) == DbXReadFrom(args, 1)

\* data.iter().all(|(_, entries)| entries.len() == 0)
AllEmpty(data) == \A i \in 1..Len(data) : Len(data[i].entries) = 0

\* the reply of Command::XRead
XReadResp(block, data) ==
    IF block /\ AllEmpty(data) THEN NullBulkString
    ELSE Array([i \in 1..Len(data) |->
                   Array(<<BulkString(data[i].key), EntriesResp(data[i].entries)>>)])

\* Command::XRead: store.xread; without block, or with data, send_resp; else
\* the handler enters block_read
XRead(c, block) ==
    /\ ~Blocked(c)
    /\ \E args \in XReadArgs :
       \E r \in DbXRead(args) :
          IF r.k = "ok" /\ block /\ AllEmpty(r.x)
          THEN /\ xargs' = [xargs EXCEPT ![c] = Some(args)]
               /\ UNCHANGED xlast
          ELSE /\ xlast' = Some([op |-> "XREAD", c |-> c, args |-> args, block |-> block,
                                 woken |-> FALSE, appended |-> {},
                                 reply |-> IF r.k = "ok" THEN XReadResp(block, r.x)
                                           ELSE NoneOpt])
               /\ UNCHANGED xargs
    /\ UNCHANGED <<extVars, masterVars, out, replicaVars, streams, stream_senders, xtasks,
                   xappended, xids>>

\* block_read, one turn of `for arg in streams`: store.get_stream_receiver
\* (subscribe, or create the channel) and join_set.spawn
XReadSubscribe(c) ==
    /\ Blocked(c)
    /\ Len(xtasks[c]) < Len(xargs[c].x)
    /\ \E key \in {xargs[c].x[Len(xtasks[c]) + 1].key} :
          /\ stream_senders' = stream_senders \cup {key}
          /\ xtasks' = [xtasks EXCEPT ![c] =
                           Append(@, [key |-> key, msg |-> NoneOpt, lagged |-> FALSE,
                                      done |-> FALSE])]
    /\ UNCHANGED <<extVars, masterVars, out, replicaVars, streams, xargs, xappended, xids, xlast>>

\* a spawned task: receiver.recv().await returns once a value was sent; the
\* task ends, with the value or with the panic of unwrap on Lagged
XReadTaskRecv(c) ==
    /\ \E i \in 1..Len(xtasks[c]) :
          /\ ~xtasks[c][i].done
          /\ xtasks[c][i].msg.some
          /\ xtasks' = [xtasks EXCEPT ![c][i].done = TRUE]
    /\ UNCHANGED <<extVars, masterVars, out, replicaVars, streams, stream_senders, xargs, xappended,
                   xids, xlast>>

\* data of the blocked XREAD: the store read found nothing
EmptyData(args) == [i \in 1..Len(args) |-> [key |-> args[i].key, entries |-> <<>>]]

\* data.iter_mut().find(|(k, _)| **k == key), then push
PushEntry(data, key, entry) ==
    TheOne({ [data EXCEPT ![i].entries = Append(@, entry)]
             : i \in {CHOOSE i \in 1..Len(data) :
                         data[i].key = key /\ \A j \in 1..(i - 1) : data[j].key # key} })

\* join_set.join_next() returns a finished task inside the deadline; the
\* handler appends its entry and replies, or panics in res.unwrap(); the
\* JoinSet is dropped
XReadJoin(c) ==
    /\ Blocked(c)
    /\ Len(xtasks[c]) = Len(xargs[c].x)
    /\ \E i \in 1..Len(xtasks[c]) :
          /\ xtasks[c][i].done
          /\ xlast' = Some([op |-> "XREAD", c |-> c, args |-> xargs[c].x, block |-> TRUE,
                            woken |-> TRUE, appended |-> xappended[c],
                            reply |-> IF xtasks[c][i].lagged THEN NoneOpt
                                      ELSE XReadResp(TRUE,
                                               PushEntry(EmptyData(xargs[c].x),
                                                         xtasks[c][i].key,
                                                         [id |-> as_bytes(xtasks[c][i].msg.x.entry_id),
                                                          kvs |-> xtasks[c][i].msg.x.data]))])
    /\ xtasks' = [xtasks EXCEPT ![c] = <<>>]
    /\ xargs' = [xargs EXCEPT ![c] = NoneOpt]
    /\ xappended' = [xappended EXCEPT ![c] = {}]
    /\ UNCHANGED <<extVars, masterVars, out, replicaVars, streams, stream_senders, xids>>

\* time::timeout returns Elapsed: no task has finished when the deadline
\* passes; block_read is dropped with its JoinSet and the reply is NullBulk
XReadTimeout(c) ==
    /\ Blocked(c)
    /\ \A i \in 1..Len(xtasks[c]) : ~xtasks[c][i].done
    /\ xlast' = Some([op |-> "XREAD", c |-> c, args |-> xargs[c].x, block |-> TRUE,
                      woken |-> FALSE, appended |-> xappended[c],
                      reply |-> XReadResp(TRUE, EmptyData(xargs[c].x))])
    /\ xtasks' = [xtasks EXCEPT ![c] = <<>>]
    /\ xargs' = [xargs EXCEPT ![c] = NoneOpt]
    /\ xappended' = [xappended EXCEPT ![c] = {}]
    /\ UNCHANGED <<extVars, masterVars, out, replicaVars, streams, stream_senders, xids>>

\* The blocking reader and the appender: the peer of c1 sends XREAD with and
\* without block, the peer of c2 sends XADD.
InitStream == InitMaster /\ InitReplicaPeers

NextStream ==
    \/ XAdd("c2")
    \/ \E block \in BOOLEAN : XRead("c1", block)
    \/ XReadSubscribe("c1") \/ XReadTaskRecv("c1") \/ XReadJoin("c1") \/ XReadTimeout("c1")

SpecStream == InitStream /\ [][NextStream]_vars

\* The scans: one client sends XADD, XRANGE and XREAD without block.
NextScan == XAdd("c1") \/ XRange("c1") \/ XRead("c1", FALSE)

SpecScan == InitStream /\ [][NextScan]_vars


(***************************************************************************)
(* Streams: the claims.                                                    *)
(***************************************************************************)
\* the total order on entry IDs: millis first, then seq_num
IdLess(a, b) == a.millis < b.millis \/ (a.millis = b.millis /\ a.seq_num < b.seq_num)

IdLeq(a, b) == a = b \/ IdLess(a, b)

\* C13: for every stream, each successful XADD returns an ID strictly greater
\* than the ID the previous successful XADD on that stream returned.
C13_XAddIdsStrictlyIncrease ==
    \A key \in DOMAIN xids :
        \A i \in 1..(Len(xids[key]) - 1) : IdLess(xids[key][i], xids[key][i + 1])


\* the last command answered was an XADD and its reply a SimpleError
XAddFailed ==
    /\ xlast.some
    /\ xlast.x.op = "XADD"
    /\ xlast.x.reply # NoneOpt
    /\ xlast.x.reply.t = "SimpleError"

\* the last command answered was an XADD and its reply a BulkString
XAddSucceeded ==
    /\ xlast.some
    /\ xlast.x.op = "XADD"
    /\ xlast.x.reply # NoneOpt
    /\ xlast.x.reply.t = "BulkString"

\* C14: an XADD that is answered with an error leaves the database as it
\* was: no entry appended, the last ID unchanged, no stream created.
C14_FailedXAddChangesNothing == XAddFailed => streams = xlast.x.before


\* the IDs the resolution rules give for a requested ID on a stream whose
\* last ID is last (empty: the stream has no entry), over the integers
ResolvedIds(entry, last, empty) ==
    IF ~entry.some
    THEN IF empty THEN {StreamEntryID(now, 0) : now \in WallClock}
         ELSE {StreamEntryID(last.millis, last.seq_num + 1)}
    ELSE IF entry.x.seq_num.some THEN {StreamEntryID(entry.x.millis, entry.x.seq_num.x)}
    ELSE IF entry.x.millis = last.millis THEN {StreamEntryID(last.millis, last.seq_num + 1)}
    ELSE {StreamEntryID(entry.x.millis, 0)}

\* the requested ID is 0-0
IsZeroId(entry) ==
    entry.some /\ entry.x.millis = 0 /\ entry.x.seq_num.some /\ entry.x.seq_num.x = 0

\* the requested ID resolves to an ID that is not above last
NotAboveTop(entry, last) ==
    /\ entry.some
    /\ \/ entry.x.millis < last.millis
       \/ /\ entry.x.millis = last.millis
          /\ entry.x.seq_num.some
          /\ entry.x.seq_num.x <= last.seq_num

\* the stream of the last XADD had no entry before it
WasEmpty == xlast.x.key \notin DOMAIN xlast.x.before

\* C15: XADD replies with the SimpleError of 0-0 for the requested ID 0-0,
\* with the SimpleError of the top item when the resolved ID is not above the
\* stream's last ID, and in every other case with the BulkString of the
\* resolved ID, whatever blocking readers existed before.
C15_XAddErrorExactlyWhen ==
    (xlast.some /\ xlast.x.op = "XADD") =>
        IF IsZeroId(xlast.x.entry) THEN xlast.x.reply = SimpleError(ERR_ZERO)
        ELSE IF NotAboveTop(xlast.x.entry, xlast.x.last_entry)
        THEN xlast.x.reply = SimpleError(ERR_TOP)
        ELSE xlast.x.reply \in
                 {BulkString(as_bytes(id)) :
                     id \in ResolvedIds(xlast.x.entry, xlast.x.last_entry, WasEmpty)}

\* C16: a successful XADD returns the ID the resolution rules give: last.seq
\* + 1 for millis-* on the last millis, 0 for millis-* above it, (wall-clock,
\* 0) for * on an empty stream and (last.millis, last.seq + 1) on a non-empty
\* one, and an explicit ID unchanged.
C16_XAddResolvesId ==
    XAddSucceeded =>
        \E id \in ResolvedIds(xlast.x.entry, xlast.x.last_entry, WasEmpty) :
            xlast.x.reply.b = as_bytes(id)


\* the IDs of the entries of a stream
StreamIds(stream) ==
    UNION {{StreamEntryID(m, n) : n \in DOMAIN stream.root[m]} : m \in DOMAIN stream.root}

\* a finite set of IDs in ascending order
RECURSIVE AscendingIds(_)
AscendingIds(S) ==
    IF S = {} THEN <<>>
    ELSE TheOne({ <<m>> \o AscendingIds(S \ {m})
                  : m \in {CHOOSE x \in S : \A y \in S : IdLeq(x, y)} })

\* the entries of the stream of key with an ID in S, in ascending ID order
EntriesOf(key, S) ==
    TheOne({ [i \in 1..Len(ids) |->
                 [id |-> as_bytes(ids[i]),
                  kvs |-> streams[key].root[ids[i].millis][ids[i].seq_num]]]
             : ids \in {AscendingIds(S)} })

\* the entries of the stream of key with lo <= ID <= hi, in ascending order
EntriesBetween(key, lo, hi) ==
    IF key \in DOMAIN streams
    THEN EntriesOf(key, {id \in StreamIds(streams[key]) : IdLeq(lo, id) /\ IdLeq(id, hi)})
    ELSE <<>>

\* C17: XRANGE key start end, for start <= end, replies with exactly the
\* entries of the stream whose ID is between start and end inclusive, each
\* once and in ascending ID order; it never fails.
C17_XRangeReturnsTheRange ==
    (xlast.some /\ xlast.x.op = "XRANGE" /\ IdLeq(xlast.x.start, xlast.x.end)) =>
        xlast.x.reply = EntriesResp(EntriesBetween(xlast.x.key, xlast.x.start, xlast.x.end))


\* the entries of the stream of key with an ID above start, in ascending order
EntriesAfter(key, start) ==
    IF key \in DOMAIN streams
    THEN EntriesOf(key, {id \in StreamIds(streams[key]) : IdLess(start, id)})
    ELSE <<>>

\* the ID bytes of the entries an XREAD reply holds for its i-th stream
ReplyIds(reply, i) == {reply.a[i].a[2].a[j].a[1].b : j \in 1..Len(reply.a[i].a[2].a)}

\* the last command answered was an XREAD and its reply an array
XReadAnswered ==
    /\ xlast.some
    /\ xlast.x.op = "XREAD"
    /\ xlast.x.reply # NoneOpt
    /\ xlast.x.reply.t = "Array"

\* C18: every entry of an XREAD reply has an ID above the start ID given for
\* its stream, in the reply of a wake-up as in that of the immediate read;
\* the immediate read returns all such entries, in ascending ID order.
C18_XReadAfterCursor ==
    XReadAnswered =>
        IF xlast.x.woken
        THEN \A i \in 1..Len(xlast.x.args) :
                 \A b \in ReplyIds(xlast.x.reply, i) :
                     \E id \in StreamIds(streams[xlast.x.args[i].key]) :
                         b = as_bytes(id) /\ IdLess(xlast.x.args[i].start, id)
        ELSE xlast.x.reply =
                 XReadResp(xlast.x.block,
                           [i \in 1..Len(xlast.x.args) |->
                               [key |-> xlast.x.args[i].key,
                                entries |-> EntriesAfter(xlast.x.args[i].key,
                                                         xlast.x.args[i].start)]])


\* the last command answered was an XREAD that had entered block_read
WasBlocked ==
    /\ xlast.some
    /\ xlast.x.op = "XREAD"
    /\ xlast.x.block
    /\ (xlast.x.woken \/ xlast.x.reply = NullBulkString)

\* every entry above a cursor of the last XREAD was appended by a successful
\* XADD while it was blocked: its streams had no entry after their cursors
NothingAfterCursors ==
    \A i \in 1..Len(xlast.x.args) :
        xlast.x.args[i].key \in DOMAIN streams =>
            \A id \in StreamIds(streams[xlast.x.args[i].key]) :
                IdLess(xlast.x.args[i].start, id) =>
                    [key |-> xlast.x.args[i].key, id |-> as_bytes(id)] \in xlast.x.appended

\* C19: a blocking XREAD on streams with no entry after their cursors, during
\* which an XADD appends to one of the streams before the deadline, replies
\* with a non-null array that contains an appended entry.
C19_BlockedXReadSeesAppend ==
    (WasBlocked /\ xlast.x.appended # {} /\ NothingAfterCursors) =>
        /\ XReadAnswered
        /\ \E a \in xlast.x.appended :
           \E i \in 1..Len(xlast.x.args) :
               xlast.x.args[i].key = a.key /\ a.id \in ReplyIds(xlast.x.reply, i)


\* C20: an XREAD is always answered: its handler never ends without a reply;
\* a blocking XREAD whose deadline elapses with no append to its streams
\* replies with NullBulk, and an XREAD without block never does.
C20_XReadIsAnswered ==
    (xlast.some /\ xlast.x.op = "XREAD") =>
        /\ xlast.x.reply # NoneOpt
        /\ (xlast.x.block /\ ~xlast.x.woken /\ xlast.x.appended = {}
                /\ (\A i \in 1..Len(xlast.x.args) :
                        EntriesAfter(xlast.x.args[i].key, xlast.x.args[i].start) = <<>>))
               => xlast.x.reply = NullBulkString
        /\ ~xlast.x.block => xlast.x.reply # NullBulkString


\* C21: a blocking XREAD that was woken by appends replies, also when several
\* appends happened before its receiver ran, and its reply is what a read of
\* the store gives at that time: every entry after the cursor of each stream.
C21_WokenXReadRereadsStore ==
    (xlast.some /\ xlast.x.op = "XREAD" /\ xlast.x.woken) =>
        xlast.x.reply =
            XReadResp(TRUE,
                      [i \in 1..Len(xlast.x.args) |->
                          [key |-> xlast.x.args[i].key,
                           entries |-> EntriesAfter(xlast.x.args[i].key,
                                                    xlast.x.args[i].start)]])


(***************************************************************************)
(* Expiry: RedisDb::get and RedisDb::set of the master (db/mod.rs) and     *)
(* RedisStore::get and RedisStore::set of the replica (server/mod.rs).     *)
(* An instant is a number of clock ticks; SystemTime::now() and            *)
(* get_current_ms() both return clock.                                       *)
(***************************************************************************)
\* a map with the binding of key replaced, and with key removed
MapInsert(m, key, v) == [x \in (DOMAIN m) \cup {key} |-> IF x = key THEN v ELSE m[x]]
MapRemove(m, key) == [x \in (DOMAIN m) \ {key} |-> m[x]]

\* RedisDb::get at instant t: the value returned and the database afterwards
RedisDbGet(db, key, t) ==
    IF key \in DOMAIN db.nonexpire_table
    THEN [value |-> Some(db.nonexpire_table[key]), db |-> db]
    ELSE IF key \in DOMAIN db.expire_table
    THEN IF t >= db.expire_table[key].expiry
         THEN [value |-> NoneOpt,
               db |-> [db EXCEPT !.expire_table = MapRemove(@, key)]]
         ELSE [value |-> Some(db.expire_table[key].value), db |-> db]
    ELSE [value |-> NoneOpt, db |-> db]

\* variant: a key found in one table is written to the table its new PX asks
\* for and left in the other
RedisDbSetKeepBoth(db, key, value, px, t) ==
    IF px.some
    THEN [db EXCEPT !.expire_table =
             MapInsert(@, key, [value |-> value, expiry |-> t + px.x])]
    ELSE [db EXCEPT !.nonexpire_table = MapInsert(@, key, value)]

\* RedisDb::set at instant t
RedisDbSet(db, key, value, px, t) ==
    IF key \in DOMAIN db.nonexpire_table
    THEN IF px.some
         THEN [nonexpire_table |-> MapRemove(db.nonexpire_table, key),
               expire_table |-> MapInsert(db.expire_table, key,
                                          [value |-> value, expiry |-> t + px.x])]
         ELSE [db EXCEPT !.nonexpire_table[key] = value]
    ELSE IF key \in DOMAIN db.expire_table
    THEN IF px.some
         THEN [db EXCEPT !.expire_table[key] = [value |-> value, expiry |-> t + px.x]]
         ELSE [nonexpire_table |-> MapInsert(db.nonexpire_table, key, value),
               expire_table |-> MapRemove(db.expire_table, key)]
    ELSE IF px.some
    THEN [db EXCEPT !.expire_table =
             MapInsert(@, key, [value |-> value, expiry |-> t + px.x])]
    ELSE [db EXCEPT !.nonexpire_table = MapInsert(@, key, value)]

\* RedisStore::get of the replica at instant t
RedisStoreGet(st, key, t) ==
    IF key \notin DOMAIN st THEN [value |-> NoneOpt, st |-> st]
    ELSE IF st[key].expiry.some
    THEN IF t > st[key].expiry.x
         THEN [value |-> NoneOpt, st |-> MapRemove(st, key)]
         ELSE [value |-> Some(st[key].value), st |-> st]
    ELSE [value |-> Some(st[key].value), st |-> st]

\* RedisStore::set of the replica at instant t
RedisStoreSet(st, key, value, px, t) ==
    MapInsert(st, key, [value |-> value,
                        expiry |-> IF px.some THEN Some(t + px.x) ELSE NoneOpt])

\* the GET arm: the reply for the value the store returned
GetReply(value) == IF value.some THEN BulkString(value.x) ELSE NullBulkString

\* the last instant of a run
MaxNow == 3
\* the PX arguments of the SET requests, in ticks
PxArgs == {NoneOpt, Some(1), Some(2)}
ExpKeys == {K_k}
ExpValues == {<<97>>, <<98>>}

\* the expiry the master's database holds for key
DbExpiry(db, key) ==
    IF key \in DOMAIN db.expire_table /\ key \notin DOMAIN db.nonexpire_table
    THEN Some(db.expire_table[key].expiry)
    ELSE NoneOpt

\* the clock advances
Tick ==
    /\ clock < MaxNow
    /\ clock' = clock + 1
    /\ UNCHANGED <<masterVars, out, replicaVars, dbVars, redis_db, redis_store, served, connVars>>

\* master.rs 75-78 and store.rs 58-60: Command::Set on the master
MasterSet ==
    /\ \E key \in ExpKeys, value \in ExpValues, px \in PxArgs :
          /\ redis_db' = RedisDbSet(redis_db, key, value, px, clock)
          /\ turn' = Some([op |-> "SET", key |-> key, value |-> value, px |-> px,
                           at |-> clock, had_expiry |-> DbExpiry(redis_db, key).some,
                           stored |-> key \in DOMAIN redis_db.nonexpire_table
                                      \/ key \in DOMAIN redis_db.expire_table])
    /\ UNCHANGED <<masterVars, out, replicaVars, dbVars, clock, redis_store, served, inbox,
                   closed, conn_buf>>

\* master.rs 97-99 and store.rs 54-56: Command::Get on the master
MasterGet ==
    /\ \E key \in ExpKeys :
       \E r \in {RedisDbGet(redis_db, key, clock)} :
          /\ redis_db' = r.db
          /\ served' = Some([role |-> "master", key |-> key, at |-> clock,
                             expiry |-> DbExpiry(redis_db, key),
                             reply |-> GetReply(r.value),
                             stored |-> key \in DOMAIN r.db.nonexpire_table
                                        \/ key \in DOMAIN r.db.expire_table])
          /\ turn' = Some([op |-> "GET", key |-> key])
    /\ UNCHANGED <<masterVars, out, replicaVars, dbVars, clock, redis_store, inbox, closed,
                   conn_buf>>

\* replica.rs 48-54 and 156-162: Command::Set from a client or from the master
ReplicaSet ==
    /\ \E key \in ExpKeys, value \in ExpValues, px \in PxArgs :
          redis_store' = RedisStoreSet(redis_store, key, value, px, clock)
    /\ UNCHANGED <<masterVars, out, replicaVars, dbVars, clock, redis_db, served, connVars>>

\* replica.rs 55-73: Command::Get on the replica
ReplicaGet ==
    /\ \E key \in ExpKeys :
       \E r \in {RedisStoreGet(redis_store, key, clock)} :
          /\ redis_store' = r.st
          /\ served' = Some([role |-> "replica", key |-> key, at |-> clock,
                             expiry |-> IF key \in DOMAIN redis_store
                                        THEN redis_store[key].expiry ELSE NoneOpt,
                             reply |-> GetReply(r.value),
                             stored |-> key \in DOMAIN r.st])
    /\ UNCHANGED <<masterVars, out, replicaVars, dbVars, clock, redis_db, connVars>>

NextExpiry == Tick \/ MasterSet \/ MasterGet \/ ReplicaSet \/ ReplicaGet

SpecExpiry == InitStream /\ [][NextExpiry]_vars

\* C22: on a master and on a replica, a GET of a key stored with an expiry
\* returns the value only at an instant strictly earlier than the expiry; at
\* an instant equal to or later than the expiry it returns NullBulk and the
\* entry is removed from the store.
C22_GetHonoursExpiry ==
    (served.some /\ served.x.expiry.some) =>
        IF served.x.at < served.x.expiry.x
        THEN served.x.reply.t = "BulkString"
        ELSE served.x.reply = NullBulkString /\ ~served.x.stored

(***************************************************************************)
(* handle_conn at the byte level: MasterServer::handle_conn (master.rs)    *)
(* and ReplicaServer::handle_conn (replica.rs).  buf is declared before    *)
(* the loop and never cleared; each turn reads into it, decodes one        *)
(* command from its front with Command::from_bytes(&buf).unwrap() and      *)
(* serves it.  A panic ends the connection's task and nothing else.        *)
(***************************************************************************)
b_role == <<114, 111, 108, 101>>
b_master == <<109, 97, 115, 116, 101, 114>>
b_slave == <<115, 108, 97, 118, 101>>
b_master_replid == <<109, 97, 115, 116, 101, 114, 95, 114, 101, 112, 108, 105, 100>>
b_master_repl_offset == <<109, 97, 115, 116, 101, 114, 95, 114, 101, 112, 108, 95, 111, 102, 102, 115, 101, 116>>
b_dir == <<100, 105, 114>>
b_dbfilename == <<100, 98, 102, 105, 108, 101, 110, 97, 109, 101>>
B_CONFIG == <<67, 79, 78, 70, 73, 71>>
B_TYPE == <<84, 89, 80, 69>>
B_XADD == <<88, 65, 68, 68>>
B_FOO == <<70, 79, 79>>
b_abc == <<97, 98, 99>>

\* ServerConfig of a master started without --dir and --dbfilename
config == [dir |-> NoneOpt, dbfilename |-> NoneOpt]

\* the orders in which a HashMap of three entries may be iterated
Orders3 == {p \in [1..3 -> 1..3] : \A i, j \in 1..3 : p[i] = p[j] => i = j}

\* the INFO arm: the lines role, master_replid and master_repl_offset,
\* joined by \n in the order the HashMap yields them, as one BulkString
handle_info(role, offset) ==
    { BulkString(lines[p[1]] \o <<10>> \o lines[p[2]] \o <<10>> \o lines[p[3]])
      : p \in Orders3,
        lines \in {<< b_role \o <<58>> \o role,
                      b_master_replid \o <<58>> \o REPL_ID,
                      b_master_repl_offset \o <<58>> \o NatToBytes(offset) >>} }

\* master.rs 218-237: the CONFIG GET arm; a key other than dir and
\* dbfilename panics
ConfigGetReply(key) ==
    TheOne({ IF k \notin {b_dir, b_dbfilename} THEN Panic
             ELSE TheOne({ Ok(Array(<<BulkString(key),
                                      BulkString(IF value.some THEN value.x ELSE <<>>)>>))
                           : value \in {IF k = b_dir THEN config.dir
                                        ELSE config.dbfilename} })
             : k \in {ToAsciiLowercase(key)} })

\* the arms of MasterServer::handle_conn for the commands the peers of this
\* specification send, on a master with no replica: the outcomes, each with
\* the frame written, the database and the replication offset afterwards
MasterServe(cmd, db, offset, t) ==
    CASE cmd.v = "Ping" ->
            {[k |-> "ok", reply |-> SimpleString(B_PONG), db |-> db, offset |-> offset]}
      [] cmd.v = "Echo" ->
            {[k |-> "ok", reply |-> BulkString(cmd.val), db |-> db, offset |-> offset]}
      [] cmd.v = "Set" ->
            {[k |-> "ok", reply |-> SimpleString(B_OK),
              db |-> RedisDbSet(db, cmd.key, cmd.value, cmd.px, t),
              offset |-> offset + Len(to_bytes(cmd))]}
      [] cmd.v = "Get" ->
            { [k |-> "ok", reply |-> GetReply(r.value), db |-> r.db, offset |-> offset]
              : r \in {RedisDbGet(db, cmd.key, t)} }
      [] cmd.v = "Info" ->
            { [k |-> "ok", reply |-> reply, db |-> db, offset |-> offset]
              : reply \in handle_info(b_master, offset) }
      [] cmd.v = "ReplConf" ->
            {[k |-> "ok", reply |-> SimpleString(B_OK), db |-> db, offset |-> offset]}
      [] cmd.v = "Config" ->
            { IF r.k = "ok" THEN [k |-> "ok", reply |-> r.x, db |-> db, offset |-> offset]
              ELSE [k |-> "panic", db |-> db, offset |-> offset]
              : r \in {ConfigGetReply(cmd.key)} }

\* the arms of ReplicaServer::handle_conn: replica.rs 39-86
ReplicaServe(cmd, st, t) ==
    CASE cmd.v = "Ping" -> {[k |-> "ok", reply |-> SimpleString(B_PONG), st |-> st]}
      [] cmd.v = "Echo" -> {[k |-> "ok", reply |-> BulkString(cmd.val), st |-> st]}
      [] cmd.v = "Set" ->
            {[k |-> "ok", reply |-> SimpleString(B_OK),
              st |-> RedisStoreSet(st, cmd.key, cmd.value, cmd.px, t)]}
      [] cmd.v = "Get" ->
            { [k |-> "ok", reply |-> GetReply(r.value), st |-> r.st]
              : r \in {RedisStoreGet(st, cmd.key, t)} }
      [] cmd.v = "Info" ->
            { [k |-> "ok", reply |-> reply, st |-> st] : reply \in handle_info(b_slave, 0) }
      [] cmd.v = "ReplConf" -> {[k |-> "ok", reply |-> SimpleString(B_OK), st |-> st]}
      [] OTHER -> {[k |-> "panic", st |-> st]}

\* reads a connection's handler does in a run
MaxConnReads == 3

\* what socket.read returns on connection c: the next request, or, once the
\* peer has closed and everything was read, no byte
ReadBytes(c) == IF Len(inbox[c]) > 0 THEN Head(inbox[c]) ELSE <<>>

\* write_all: to a peer that has closed it succeeds or fails; a failure
\* panics in unwrap
WriteOutcomes(c) == IF c \in closed THEN {TRUE, FALSE} ELSE {TRUE}

\* one turn of the loop of MasterServer::handle_conn on connection c
MasterHandleConn(c) ==
    /\ pc[c] = "read"
    /\ nread[c] < MaxConnReads
    /\ Len(inbox[c]) > 0 \/ c \in closed
    /\ \E bytes \in {ReadBytes(c)} :
       \E b \in {OverlayRead(conn_buf[c], bytes)} :
       \E r \in {from_bytes(b)} :
          /\ inbox' = [inbox EXCEPT ![c] = IF Len(@) > 0 THEN Tail(@) ELSE @]
          /\ conn_buf' = [conn_buf EXCEPT ![c] = b]
          /\ nread' = [nread EXCEPT ![c] = @ + 1]
          /\ IF ~r.ok
             THEN /\ pc' = [pc EXCEPT ![c] = "panicked"]
                  /\ turn' = Some([c |-> c, role |-> "master", bytes |-> bytes,
                                   cmd |-> NoneOpt, reply |-> NoneOpt, counted |-> 0,
                                   stored |-> FALSE])
                  /\ UNCHANGED <<req, redis_db, repl_offset>>
             ELSE \E res \in MasterServe(r.cmd, redis_db, repl_offset, clock) :
                  \E written \in WriteOutcomes(c) :
                     /\ req' = [req EXCEPT ![c] = Some(r.cmd)]
                     /\ redis_db' = res.db
                     /\ repl_offset' = res.offset
                     /\ pc' = [pc EXCEPT ![c] = IF res.k = "ok" /\ written THEN "read"
                                                ELSE "panicked"]
                     /\ turn' = Some([c |-> c, role |-> "master", bytes |-> bytes,
                                      cmd |-> Some(r.cmd),
                                      reply |-> IF res.k = "ok" /\ written
                                                THEN Some(res.reply) ELSE NoneOpt,
                                      counted |-> res.offset - repl_offset,
                                      stored |-> r.cmd.v = "Set"])
    /\ UNCHANGED <<store, commitLog, repl_conns, replLock, connLock, iter,
                   master_repl_offset, ack_num, timed_out, tasks, inPos, out, replicaVars,
                   dbVars, clock, redis_store, served, closed>>

\* one turn of the loop of ReplicaServer::handle_conn on connection c
ReplicaHandleConn(c) ==
    /\ pc[c] = "read"
    /\ nread[c] < MaxConnReads
    /\ Len(inbox[c]) > 0 \/ c \in closed
    /\ \E bytes \in {ReadBytes(c)} :
       \E b \in {OverlayRead(conn_buf[c], bytes)} :
       \E r \in {from_bytes(b)} :
          /\ inbox' = [inbox EXCEPT ![c] = IF Len(@) > 0 THEN Tail(@) ELSE @]
          /\ conn_buf' = [conn_buf EXCEPT ![c] = b]
          /\ nread' = [nread EXCEPT ![c] = @ + 1]
          /\ IF ~r.ok
             THEN /\ pc' = [pc EXCEPT ![c] = "panicked"]
                  /\ turn' = Some([c |-> c, role |-> "replica", bytes |-> bytes,
                                   cmd |-> NoneOpt, reply |-> NoneOpt])
                  /\ UNCHANGED <<req, redis_store>>
             ELSE \E res \in ReplicaServe(r.cmd, redis_store, clock) :
                  \E written \in WriteOutcomes(c) :
                     /\ req' = [req EXCEPT ![c] = Some(r.cmd)]
                     /\ redis_store' = res.st
                     /\ pc' = [pc EXCEPT ![c] = IF res.k = "ok" /\ written THEN "read"
                                                ELSE "panicked"]
                     /\ turn' = Some([c |-> c, role |-> "replica", bytes |-> bytes,
                                      cmd |-> Some(r.cmd),
                                      reply |-> IF res.k = "ok" /\ written
                                                THEN Some(res.reply) ELSE NoneOpt])
    /\ UNCHANGED <<store, commitLog, repl_offset, repl_conns, replLock, connLock, iter,
                   master_repl_offset, ack_num, timed_out, tasks, inPos, out, replicaVars,
                   dbVars, clock, redis_db, served, closed>>

\* the peer of c writes one request and waits for the handler to read it
PeerSend(c, requests) ==
    /\ c \notin closed
    /\ Len(inbox[c]) = 0
    /\ pc[c] = "read"
    /\ nread[c] < MaxConnReads
    /\ \E args \in requests : inbox' = [inbox EXCEPT ![c] = Append(@, ArgsToBytes(args))]
    /\ UNCHANGED <<masterVars, out, replicaVars, dbVars, clock, redis_db, redis_store,
                   served, closed, conn_buf, turn>>

\* the peer of c closes the connection
PeerClose(c) ==
    /\ c \notin closed
    /\ Len(inbox[c]) = 0
    /\ closed' = closed \cup {c}
    /\ UNCHANGED <<masterVars, out, replicaVars, dbVars, clock, redis_db, redis_store,
                   served, inbox, conn_buf, turn>>

\* requests with valid arguments, and well-formed requests with invalid ones:
\* an unknown INFO section, a PX that is no number, an unknown CONFIG GET key,
\* an unknown verb
ValidRequests ==
    {<<B_PING>>, <<B_ECHO, K_k>>, <<B_SET, K_k, <<97>>>>, <<B_GET, K_k>>,
     <<B_CONFIG, B_GET, b_dir>>}
InvalidRequests ==
    {<<B_INFO, b_abc>>, <<B_SET, K_k, <<97>>, B_px, b_abc>>, <<B_CONFIG, B_GET, b_abc>>,
     <<B_FOO>>}

\* A master and its client connections.
NextConn ==
    \E c \in Clients :
        \/ PeerSend(c, IF c = "c1" THEN ValidRequests \cup InvalidRequests
                       ELSE {<<B_SET, K_k, <<98>>>>})
        \/ PeerClose(c)
        \/ MasterHandleConn(c)

SpecConn == InitStream /\ [][NextConn]_vars

\* C23: a request that is a well-formed array of bulk strings with invalid
\* arguments is answered with exactly one SimpleError frame, and the
\* connection stays open and serves the next request.
C23_InvalidArgsGetSimpleError ==
    (turn.some /\ turn.x.bytes \in {ArgsToBytes(args) : args \in InvalidRequests}) =>
        /\ turn.x.reply.some
        /\ turn.x.reply.x.t = "SimpleError"
        /\ pc[turn.x.c] = "read"

\* C24: when a read returns 0 bytes (the peer closed the connection) the
\* handler drops the connection without executing any command, whatever was
\* served on it before.
C24_ZeroReadExecutesNothing ==
    (turn.some /\ turn.x.bytes = <<>>) =>
        /\ ~turn.x.cmd.some
        /\ ~turn.x.reply.some
        /\ pc[turn.x.c] # "read"

\* what a client of a replica sends
ReplicaRequests ==
    {<<B_PING>>, <<B_ECHO, K_k>>, <<B_SET, K_k, <<97>>>>, <<B_GET, K_k>>, <<B_INFO>>,
     <<B_TYPE, K_k>>, <<B_XADD, K_k, <<49, 45, 49>>, <<102>>, <<118>>>>,
     <<B_REPLCONF, B_listening_port, <<54>>>>, <<B_PSYNC, B_qmark, <<45, 49>>>>}

\* A replica and its client connections.
NextReplicaConn ==
    \E c \in Clients :
        \/ PeerSend(c, IF c = "c1" THEN ReplicaRequests ELSE {<<B_GET, K_k>>})
        \/ PeerClose(c)
        \/ ReplicaHandleConn(c)

SpecReplicaConn == InitStream /\ [][NextReplicaConn]_vars

\* C28: a replica serves PING, ECHO, GET, INFO, TYPE and XADD from a client
\* with their normal responses, and rejects REPLCONF and PSYNC from a client:
\* it neither answers them with +OK nor executes them.
C28_ReplicaClientCommands ==
    (turn.some /\ turn.x.role = "replica" /\ turn.x.bytes # <<>>) =>
        IF \E args \in ReplicaRequests :
              /\ turn.x.bytes = ArgsToBytes(args)
              /\ args[1] \in {B_REPLCONF, B_PSYNC}
        THEN turn.x.reply # Some(SimpleString(B_OK))
        ELSE /\ turn.x.reply.some
             /\ turn.x.reply.x.t \in {"SimpleString", "BulkString", "NullBulkString"}
             /\ pc[turn.x.c] = "read"

(***************************************************************************)
(* A master whose replica connections may break: a write to a connection   *)
(* whose peer is gone may fail, and send_cmd unwraps the result of         *)
(* write_all.                                                              *)
(***************************************************************************)
\* the peer of replica connection r goes away after its handshake
ReplicaGone(r) ==
    /\ r \in Range(repl_conns)
    /\ r \notin closed
    /\ closed' = closed \cup {r}
    /\ UNCHANGED <<masterVars, out, replicaVars, dbVars, clock, redis_db, redis_store,
                   served, inbox, conn_buf, turn>>

\* master.rs 88-92 with send_cmd failing: unwrap panics inside the loop, the
\* guards on the list and on the connection are dropped by the unwinding, the
\* handler's task ends
SetSendFails(c) ==
    /\ pc[c] = "set_send"
    /\ iter[c] <= Len(repl_conns)
    /\ connLock[repl_conns[iter[c]]] = "free"
    /\ repl_conns[iter[c]] \in closed
    /\ replLock' = "free"
    /\ pc' = [pc EXCEPT ![c] = "panicked"]
    /\ turn' = Some([c |-> c, failed |-> repl_conns[iter[c]], during |-> "SET"])
    /\ UNCHANGED <<req, nread, store, commitLog, repl_offset, repl_conns, connLock, iter,
                   master_repl_offset, ack_num, timed_out, tasks, inPos, out, replicaVars,
                   dbVars, clock, redis_db, redis_store, served, inbox, closed, conn_buf>>

\* master.rs 173-177 with send_cmd failing: the spawned task panics, its guard
\* on the connection is dropped, join_next will return its JoinError
TaskSendFails(c, r) ==
    /\ pc[c] = "wait_join"
    /\ r \in DOMAIN tasks[c]
    /\ tasks[c][r] = "spawned"
    /\ connLock[r] = "free"
    /\ r \in closed
    /\ tasks' = [tasks EXCEPT ![c][r] = "done_panic"]
    /\ turn' = Some([c |-> c, failed |-> r, during |-> "WAIT"])
    /\ UNCHANGED <<pc, req, nread, store, commitLog, repl_offset, repl_conns, replLock,
                   connLock, iter, master_repl_offset, ack_num, timed_out, inPos, out,
                   replicaVars, dbVars, clock, redis_db, redis_store, served, inbox, closed,
                   conn_buf>>

\* the replica peer of r reads while it is there
ReplicaReadAlive(r) == r \notin closed /\ ReplicaRead(r)

\* A master with one client and replicas that may go away.
NextBroken ==
    \/ \E c \in {"c1"} \cup Replicas : HandlerStep(c)
    \/ SetSendFails("c1")
    \/ \E r \in Replicas : \/ ReplicaReadAlive(r)
                           \/ ReplicaGone(r)
                           \/ TaskSendFails("c1", r)

SpecBroken == Init /\ [][NextBroken]_vars

\* C25: when a write to a replica connection fails while a SET is propagated
\* or while WAIT sends its GETACK, the master keeps running, the handler that
\* was writing included, and that replica is removed from the replica list.
C25_FailedReplicaIsRemoved ==
    turn.some =>
        /\ turn.x.failed \notin Range(repl_conns)
        /\ pc[turn.x.c] # "panicked"

(***************************************************************************)
(* watch_master when the master closes the connection.                     *)
(***************************************************************************)
\* reads of a closed connection the replica does in a run
MaxEofReads == 2

\* the master closes the connection of replica r; what it wrote before stays
\* readable
MasterClose(r) ==
    /\ r \notin closed
    /\ closed' = closed \cup {r}
    /\ UNCHANGED <<masterVars, out, replicaVars, dbVars, clock, redis_db, redis_store,
                   served, inbox, conn_buf, turn>>

\* the number of reads watch_master has done on the closed connection of r
EofReads(r) == IF turn.some /\ turn.x.c = r THEN turn.x.n ELSE 0

\* replica.rs 255-271: a turn of the loop of watch_master once everything the
\* master wrote is consumed and the connection is closed.  The read returns
\* Ok(0), and handle_cmd_from_master(recv_buf, 0, ..) runs its loop zero times
\* and returns Ok(()), so the loop continues; or the read returns an error,
\* and unwrap panics.
WatchReadClosed(r) ==
    /\ rstate[r] = "watching"
    /\ r \in closed
    /\ rpos[r] = Len(out[r])
    /\ EofReads(r) < MaxEofReads
    /\ \E result \in {"zero", "error"} :
          /\ rstate' = [rstate EXCEPT ![r] = IF result = "zero" THEN "watching" ELSE "failed"]
          /\ turn' = Some([c |-> r, n |-> EofReads(r) + 1, result |-> result])
    /\ UNCHANGED <<masterVars, out, rpos, r_offset, r_store, sentAcks, hs_buf, dbVars, clock,
                   redis_db, redis_store, served, inbox, closed, conn_buf>>

\* the master of r writes one more frame while the connection is open
MasterSendOpen(r) == r \notin closed /\ EnvMasterSend(r)

\* A replica whose master sends commands and then closes the connection.
NextWatch ==
    \/ MasterSendOpen("r1")
    \/ MasterClose("r1")
    \/ ReplicaRead("r1")
    \/ WatchReadClosed("r1")

SpecWatch == InitReplica /\ [][NextWatch]_vars

\* C26: once a read of the master connection has returned 0 bytes or an
\* error, the watch task has ended and reads no more.
C26_WatchEndsOnClose ==
    turn.some =>
        /\ rstate[turn.x.c] # "watching"
        /\ turn.x.n = 1

(***************************************************************************)
(* Requests and responses on one client connection of the master.          *)
(***************************************************************************)
\* the response the master's handler writes for a SET or a WAIT
IsResponseTo(f, cmd) ==
    /\ f.k = "resp"
    /\ IF IsSet(cmd) THEN f.val = SimpleString(B_OK) ELSE f.val.t = "Integer"

\* C27: on one client connection the handler has written the response to a
\* request before it reads the next one: while it serves its n-th request the
\* connection carries n - 1 responses, when it is back at its read it carries
\* n, and the n-th response is the one to the n-th request.
C27_ResponseBeforeNextRead ==
    \A c \in Clients :
        /\ Len(out[c]) = IF pc[c] = "read" THEN nread[c] ELSE nread[c] - 1
        /\ (pc[c] = "read" /\ nread[c] > 0) => IsResponseTo(out[c][nread[c]], req[c].x)

\* a client has had two requests answered, a SET after a WAIT
C27_Witness ==
    /\ pc["c1"] = "read"
    /\ nread["c1"] = 2
    /\ Len(out["c1"]) = 2
    /\ out["c1"][1].val.t = "Integer"
    /\ IsSet(req["c1"].x)

(***************************************************************************)
(* resp.rs: RespValue::to_bytes followed by decode.                        *)
(***************************************************************************)
\* longest text or payload of a protocol value
MaxText == 2
\* the bytes texts and payloads are made of: a letter, CR, LF
TextBytes == {97, 13, 10}
Texts == UNION {[1..n -> TextBytes] : n \in 0..MaxText}
\* the integers of protocol values
RespInts == -1..10

\* protocol values that hold no other value
ScalarValues ==
    {SimpleString(s) : s \in Texts} \cup {SimpleError(s) : s \in Texts}
        \cup {BulkString(b) : b \in Texts} \cup {Integer(i) : i \in RespInts}
        \cup {NullBulkString}

\* what arrays hold
ElemValues ==
    {SimpleString(<<97>>), SimpleError(<<97>>), BulkString(<<>>), BulkString(<<97, 97>>),
     BulkString(<<13, 10>>), Integer(10), NullBulkString, Array(<<>>),
     Array(<<BulkString(<<97>>)>>)}

RespValues == ScalarValues \cup {Array(a) : a \in UNION {[1..n -> ElemValues] : n \in 0..2}}

\* a value is encoded: RespValue::to_bytes
RespEncode ==
    /\ IF turn.some THEN turn.x.decoded.some ELSE TRUE
    /\ \E v \in RespValues :
          turn' = Some([val |-> v, bytes |-> RespToBytes(v), decoded |-> NoneOpt])
    /\ UNCHANGED <<masterVars, out, replicaVars, dbVars, clock, redis_db, redis_store,
                   served, inbox, closed, conn_buf>>

\* the bytes are decoded: decode
RespDecode ==
    /\ turn.some
    /\ ~turn.x.decoded.some
    /\ turn' = Some([turn.x EXCEPT !.decoded = Some(decode(turn.x.bytes))])
    /\ UNCHANGED <<masterVars, out, replicaVars, dbVars, clock, redis_db, redis_store,
                   served, inbox, closed, conn_buf>>

NextResp == RespEncode \/ RespDecode

SpecResp == InitStream /\ [][NextResp]_vars

\* C29: decoding the encoding of a protocol value gives back the value and
\* no remaining byte, for every value: simple errors, the null bulk string
\* and bulk strings whose payload holds CR or LF included.
C29_DecodeInvertsEncode ==
    (turn.some /\ turn.x.decoded.some) =>
        /\ turn.x.decoded.x.ok
        /\ turn.x.decoded.x.val = turn.x.val
        /\ turn.x.decoded.x.rest = <<>>

(***************************************************************************)
(* command.rs: Command::to_bytes followed by Command::from_bytes.          *)
(***************************************************************************)
\* command.rs 165: the arm _ => todo!() of to_bytes takes these variants
ToBytesTodo == {"Wait", "Config", "Keys", "LookupType", "XAdd", "XRange"}

\* Command::to_bytes with its panic
ToBytesResult(cmd) == IF cmd.v \in ToBytesTodo THEN Panic ELSE Ok(to_bytes(cmd))

\* largest number a command of the set carries
MaxCmdNum == 12

\* the stream IDs of the commands of the set
CmdIds == {StreamEntryID(m, n) : m \in {0, 1}, n \in {0, 1}}

Commands ==
    {Ping, Echo(K_k), Get(K_k), Info(NoneOpt), Info(Some(Replication)), Keys,
     LookupType(K_k), ConfigGet(b_dir), CmdXAdd(K_k, NoneOpt, [f \in {<<102>>} |-> <<118>>]),
     CmdXAdd(K_k, ReqStreamEntryID(1, Some(1)), [f \in {<<102>>} |-> <<118>>]),
     PSync(NoneOpt, NoneOpt), PSync(Some(REPL_ID), Some(0)),
     ReplConf(GetAck), ReplConf(ListeningPort(ReplicaPort)), ReplConf(Capa(<<B_psync2>>)),
     ReplConf(Capa(<<>>))}
        \cup {Set(K_k, <<97>>, px) : px \in {NoneOpt} \cup {Some(n) : n \in 0..MaxCmdNum}}
        \cup {ReplConf(Ack(n)) : n \in 0..MaxCmdNum}
        \cup {Wait(n, 100) : n \in 0..2}
        \cup {CmdXRange(K_k, a, b) : a, b \in CmdIds}
        \cup {CmdXRead(block, <<XReadStreamArg(K_k, a)>>)
                : block \in {NoneOpt, Some(0), Some(MaxCmdNum)}, a \in CmdIds}
        \cup {CmdXRead(NoneOpt, <<XReadStreamArg(K_k, a), XReadStreamArg(K_kk, b)>>)
                : a, b \in CmdIds}

\* a command is encoded: Command::to_bytes
CommandEncode ==
    /\ IF turn.some THEN turn.x.encoded.k = "panic" \/ turn.x.decoded.some ELSE TRUE
    /\ \E cmd \in Commands :
          turn' = Some([cmd |-> cmd, encoded |-> ToBytesResult(cmd), decoded |-> NoneOpt])
    /\ UNCHANGED <<masterVars, out, replicaVars, dbVars, clock, redis_db, redis_store,
                   served, inbox, closed, conn_buf>>

\* the bytes are decoded: Command::from_bytes
CommandDecode ==
    /\ turn.some
    /\ turn.x.encoded.k = "ok"
    /\ ~turn.x.decoded.some
    /\ turn' = Some([turn.x EXCEPT !.decoded = Some(from_bytes(turn.x.encoded.x))])
    /\ UNCHANGED <<masterVars, out, replicaVars, dbVars, clock, redis_db, redis_store,
                   served, inbox, closed, conn_buf>>

NextCommand == CommandEncode \/ CommandDecode

SpecCommand == InitStream /\ [][NextCommand]_vars

\* C30: decoding the encoding of a command gives back the command and no
\* remaining byte, for every command: WAIT, CONFIG GET, KEYS, TYPE, XADD,
\* XRANGE and XREAD included.
C30_FromBytesInvertsToBytes ==
    turn.some =>
        /\ turn.x.encoded.k = "ok"
        /\ turn.x.decoded.some =>
              /\ turn.x.decoded.x.ok
              /\ turn.x.decoded.x.cmd = turn.x.cmd
              /\ turn.x.decoded.x.rest = <<>>

(***************************************************************************)
(* rdb.rs: the snapshot reader.                                            *)
(***************************************************************************)
REDIS_MAGIC_STRING == <<82, 69, 68, 73, 83>>

OPCODE_EOF == 255
OPCODE_SELECTDB == 254
OPCODE_EXPIRETIME == 253
OPCODE_EXPIRETIMEMS == 252
OPCODE_RESIZEDB == 251
OPCODE_AUX == 250

\* enum RdbLength
Length(l) == [t |-> "Length", n |-> l]
Format(v) == [t |-> "Format", n |-> v]

\* the builds: with overflow checks, where an arithmetic overflow panics, and
\* without, where it wraps
OverflowChecks == BOOLEAN

\* rdb.rs 44: (b0 % (1 << 6)) << 8 + b1 on u8.  The sum binds tighter than the
\* shift, so b0 % 64 is shifted by 8 + b1, which is never below the width of
\* u8: with overflow checks the sum or the shift panics, without them the sum
\* wraps to u8, the shift amount is taken modulo 8 and the result keeps its
\* low 8 bits.
ShiftedLength(b0, b1, checked) ==
    IF checked THEN Panic
    ELSE Ok(((b0 % 64) * 2 ^ (((8 + b1) % 256) % 8)) % 256)

\* extract_rdb_objlength: a length or a format tag, and the bytes after it
extract_rdb_objlength(bytes, checked) ==
    IF Len(bytes) = 0 THEN Err("Extract first byte of RDB length")
    ELSE TheOne({
        CASE b0 \div 64 = 0 -> Ok([length |-> Length(b0), remaining |-> remaining])
          [] b0 \div 64 = 1 ->
                (IF Len(remaining) = 0
                 THEN Err("Extract second byte following 01 leading bits")
                 ELSE TheOne({ IF l.k = "ok"
                               THEN Ok([length |-> Length(l.x), remaining |-> Tail(remaining)])
                               ELSE l
                               : l \in {ShiftedLength(b0, remaining[1], checked)} }))
          [] b0 \div 64 = 2 ->
                (IF Len(remaining) = 0
                 THEN Err("Extract second byte following 10 leading bits")
                 ELSE Ok([length |-> Length(remaining[1]), remaining |-> Tail(remaining)]))
          [] b0 \div 64 = 3 -> Ok([length |-> Format(b0 % 64), remaining |-> remaining])
        : b0 \in {bytes[1]}, remaining \in {Tail(bytes)} })

\* first bytes of each class, and the bytes that may follow
FirstBytes == {0, 5, 63, 64, 65, 127, 128, 129, 191, 192, 195}
NextBytes == {0, 1, 100, 250}
\* bytes after the first one in an input of the length decoder
MaxAfter == 4

LengthInputs == {<<b0>> \o t : b0 \in FirstBytes, t \in UNION {[1..n -> NextBytes] : n \in 0..MaxAfter}}

\* a length is decoded from the front of some bytes, by some build
ExtractLength ==
    /\ ~turn.some
    /\ \E bytes \in LengthInputs, checked \in OverflowChecks :
          turn' = Some([bytes |-> bytes, checked |-> checked,
                        res |-> extract_rdb_objlength(bytes, checked)])
    /\ UNCHANGED <<masterVars, out, replicaVars, dbVars, clock, redis_db, redis_store,
                   served, inbox, closed, conn_buf>>

NextRdbLength == ExtractLength

SpecRdbLength == InitStream /\ [][NextRdbLength]_vars

\* the four bytes that hold n, most significant first
U32ToBe(n) == <<(n \div 16777216) % 256, (n \div 65536) % 256, (n \div 256) % 256, n % 256>>

\* the number of bytes a decoding has consumed
Consumed(t) == Len(t.bytes) - Len(t.res.x.remaining)

\* C33: the length decoder returns the low 6 bits for a first byte with top
\* bits 00, the 14-bit number made of the low 6 bits and the next byte for 01,
\* the number held in the next four bytes for 10, and consumes exactly 1, 2
\* and 5 bytes.
C33_LengthDecoding ==
    turn.some =>
        CASE turn.x.bytes[1] \div 64 = 0 ->
                /\ turn.x.res = Ok([length |-> Length(turn.x.bytes[1] % 64),
                                    remaining |-> Tail(turn.x.bytes)])
                /\ Consumed(turn.x) = 1
          [] turn.x.bytes[1] \div 64 = 1 /\ Len(turn.x.bytes) >= 2 ->
                /\ turn.x.res.k = "ok"
                /\ turn.x.res.x.length = Length((turn.x.bytes[1] % 64) * 256 + turn.x.bytes[2])
                /\ Consumed(turn.x) = 2
          [] turn.x.bytes[1] \div 64 = 2 /\ Len(turn.x.bytes) >= 5 ->
                /\ turn.x.res.k = "ok"
                /\ turn.x.res.x.length.t = "Length"
                /\ U32ToBe(turn.x.res.x.length.n) = SubSeq(turn.x.bytes, 2, 5)
                /\ Consumed(turn.x) = 5
          [] OTHER -> TRUE

\* extract_rdb_length: a length, not a format tag
extract_rdb_length(bytes, checked) ==
    TheOne({ IF r.k # "ok" THEN r
             ELSE IF r.x.length.t = "Length" THEN Ok([n |-> r.x.length.n, remaining |-> r.x.remaining])
             ELSE Err("Unexpected number encoding")
             : r \in {extract_rdb_objlength(bytes, checked)} })

\* slice::split_at(n): panics when n is past the end
SplitAt(bytes, n) ==
    IF n > Len(bytes) THEN Panic
    ELSE Ok([val |-> Take(bytes, n), remaining |-> Drop(bytes, n)])

\* extract_rdb_string: a length-prefixed or integer-encoded string.  The LZF
\* format (tag 3) is decoded up to the call of lzf::decompress, whose result
\* is taken to be an error.
extract_rdb_string(bytes, checked) ==
    TheOne({
        IF r.k # "ok" THEN r
        ELSE IF r.x.length.t = "Length" THEN SplitAt(r.x.remaining, r.x.length.n)
        ELSE IF r.x.length.n <= 2 THEN SplitAt(r.x.remaining, 2 ^ r.x.length.n)
        ELSE IF r.x.length.n = 3
        THEN TheOne({
                IF clen.k # "ok" THEN clen
                ELSE TheOne({ IF uclen.k # "ok" THEN uclen
                              ELSE IF SplitAt(uclen.x.remaining, clen.x.n).k = "panic" THEN Panic
                              ELSE Err("Decompress LZF")
                              : uclen \in {extract_rdb_length(clen.x.remaining, checked)} })
                : clen \in {extract_rdb_length(r.x.remaining, checked)} })
        ELSE Err("Unexpected special format for string")
        : r \in {extract_rdb_objlength(bytes, checked)} })

\* Buf::get_u32_le and get_u64_le: the value of n bytes, least significant first;
\* they panic when fewer than n bytes remain
RECURSIVE LeValue(_)
LeValue(bytes) == IF Len(bytes) = 0 THEN 0 ELSE Head(bytes) + 256 * LeValue(Tail(bytes))

GetLe(bytes, n) ==
    IF Len(bytes) < n THEN Panic
    ELSE Ok([n |-> LeValue(Take(bytes, n)), remaining |-> Drop(bytes, n)])

\* rdb.rs 163-208: the loop over the key/value records of one database, from
\* its head with the tables built so far
RECURSIVE ParseRecords(_, _, _, _, _)
ParseRecords(bytes, nonexpire_table, expire_table, checked, t) ==
    IF Len(bytes) = 0 \/ bytes[1] \in {OPCODE_SELECTDB, OPCODE_EOF}
    THEN Ok([nonexpire_table |-> nonexpire_table, expire_table |-> expire_table,
             remaining |-> bytes])
    ELSE TheOne({
        IF since.k # "ok" THEN since
        ELSE IF Len(since.x.remaining) = 0 THEN Err("Extract value type")
        ELSE IF since.x.remaining[1] # 0 THEN Err("RDB parser currently only support string values")
        ELSE TheOne({
            IF key.k # "ok" THEN key
            ELSE TheOne({
                IF value.k # "ok" THEN value
                ELSE IF ~since.x.expiry.some
                THEN ParseRecords(value.x.remaining,
                                  MapInsert(nonexpire_table, key.x.val, value.x.val),
                                  expire_table, checked, t)
                ELSE IF since.x.expiry.x > t
                THEN ParseRecords(value.x.remaining, nonexpire_table,
                                  MapInsert(expire_table, key.x.val,
                                            [value |-> value.x.val, expiry |-> since.x.expiry.x]),
                                  checked, t)
                ELSE ParseRecords(value.x.remaining, nonexpire_table, expire_table, checked, t)
                : value \in {extract_rdb_string(key.x.remaining, checked)} })
            : key \in {extract_rdb_string(Tail(since.x.remaining), checked)} })
        : since \in {
            CASE bytes[1] = OPCODE_EXPIRETIME ->
                    TheOne({ IF secs.k # "ok" THEN secs
                             ELSE Ok([expiry |-> Some(1000 * secs.x.n),
                                      remaining |-> secs.x.remaining])
                             : secs \in {GetLe(Tail(bytes), 4)} })
              [] bytes[1] = OPCODE_EXPIRETIMEMS ->
                    TheOne({ IF millis.k # "ok" THEN millis
                             ELSE Ok([expiry |-> Some(millis.x.n),
                                      remaining |-> millis.x.remaining])
                             : millis \in {GetLe(Tail(bytes), 8)} })
              [] OTHER -> Ok([expiry |-> NoneOpt, remaining |-> bytes]) } })

\* rdb.rs 146-160: the optional RESIZEDB with its two sizes
SkipResizeDb(bytes, checked) ==
    IF Len(bytes) > 0 /\ bytes[1] = OPCODE_RESIZEDB
    THEN TheOne({ IF table_size.k # "ok" THEN table_size
                  ELSE TheOne({ IF expire_table_size.k # "ok" THEN expire_table_size
                                ELSE Ok(expire_table_size.x.remaining)
                                : expire_table_size \in
                                    {extract_rdb_length(table_size.x.remaining, checked)} })
                  : table_size \in {extract_rdb_length(Tail(bytes), checked)} })
    ELSE Ok(bytes)

\* rdb.rs 134-234: the loop over the top-level records, with the databases
\* read so far
RECURSIVE ParseOpcodes(_, _, _, _)
ParseOpcodes(remaining, databases, checked, t) ==
    IF Len(remaining) = 0 \/ remaining[1] = OPCODE_EOF THEN Ok(databases)
    ELSE IF remaining[1] = OPCODE_SELECTDB
    THEN TheOne({
            IF db_num.k # "ok" THEN db_num
            ELSE TheOne({
                IF sized.k # "ok" THEN sized
                ELSE TheOne({ IF db.k # "ok" THEN db
                              ELSE ParseOpcodes(db.x.remaining,
                                                MapInsert(databases, db_num.x.n,
                                                    [nonexpire_table |-> db.x.nonexpire_table,
                                                     expire_table |-> db.x.expire_table]),
                                                checked, t)
                              : db \in {ParseRecords(sized.x, <<>>, <<>>, checked, t)} })
                : sized \in {SkipResizeDb(db_num.x.remaining, checked)} })
            : db_num \in {extract_rdb_length(Tail(remaining), checked)} })
    ELSE IF remaining[1] = OPCODE_AUX
    THEN TheOne({ IF key.k # "ok" THEN key
                  ELSE TheOne({ IF val.k # "ok" THEN val
                                ELSE ParseOpcodes(val.x.remaining, databases, checked, t)
                                : val \in {extract_rdb_string(key.x.remaining, checked)} })
                  : key \in {extract_rdb_string(Tail(remaining), checked)} })
    ELSE Err("Unexpected opcode while parsing RDB")

\* rdb.rs parse_rdb: the databases of a snapshot.  The error for a bad magic
\* formats &bytes[..10], which panics on fewer than 10 bytes; the version is
\* split off with split_at(4).
ParseRdb(bytes, checked, t) ==
    IF ~IsPrefix(REDIS_MAGIC_STRING, bytes)
    THEN IF Len(bytes) < 10 THEN Panic ELSE Err("Expect REDIS string")
    ELSE TheOne({ IF ver_num.k # "ok" THEN ver_num
                  ELSE ParseOpcodes(ver_num.x.remaining, <<>>, checked, t)
                  : ver_num \in {SplitAt(Drop(bytes, Len(REDIS_MAGIC_STRING)), 4)} })

\* RedisDb::new, without its streams
RedisDbNew == [nonexpire_table |-> <<>>, expire_table |-> <<>>]

\* RedisStore::new: one empty database, numbered 0
RedisStoreNew == [databases |-> [n \in {0} |-> RedisDbNew], cur_db_num |-> 0]

\* RedisStore::from: the current database is the one with the least number;
\* without databases, RedisStore::new
RedisStoreFrom(databases) ==
    IF DOMAIN databases = {} THEN RedisStoreNew
    ELSE [databases |-> databases,
          cur_db_num |-> CHOOSE k \in DOMAIN databases : \A j \in DOMAIN databases : k <= j]

\* load_rdb with --dir and --dbfilename given: file is what fs::read returns,
\* NoneOpt for a file that cannot be read
load_rdb(file, checked, t) ==
    IF ~file.some THEN Ok(NoneOpt)
    ELSE TheOne({ CASE rdb.k = "ok" -> Ok(Some(rdb.x))
                    [] rdb.k = "err" -> Ok(NoneOpt)
                    [] rdb.k = "panic" -> Panic
                  : rdb \in {ParseRdb(file.x, checked, t)} })

\* MasterServer::new: the store the master starts with, unless loading panics
MasterServerNew(file, checked, t) ==
    TheOne({ IF databases.k # "ok" THEN databases
             ELSE IF databases.x.some THEN Ok(RedisStoreFrom(databases.x.x))
             ELSE Ok(RedisStoreNew)
             : databases \in {load_rdb(file, checked, t)} })

\* two snapshots that can be read: database 0 with k -> v, and database 0 with
\* k -> v expiring at 2 ms and l -> w expiring at 1 s
GoodRdb == <<82, 69, 68, 73, 83, 48, 48, 49, 49, 254, 0, 251, 1, 0, 0, 1, 107, 1, 118, 255>>
ExpiringRdb ==
    <<82, 69, 68, 73, 83, 48, 48, 49, 49, 254, 0, 252, 2, 0, 0, 0, 0, 0, 0, 0, 0, 1, 107, 1, 118,
      253, 1, 0, 0, 0, 0, 1, 108, 1, 119, 255>>

\* s with its i-th byte replaced by b
WithByte(s, i, b) == [s EXCEPT ![i] = b]

\* the snapshot files of a start: readable ones, no file, and for each failure
\* mode files that cannot be read
SnapshotFiles ==
    {[kind |-> "good", file |-> Some(f)] : f \in {GoodRdb, ExpiringRdb}}
    \cup {[kind |-> "missing", file |-> NoneOpt]}
    \cup {[kind |-> "truncated", file |-> Some(Take(f, n))]
            : f \in {GoodRdb, ExpiringRdb}, n \in 0..19}
    \cup {[kind |-> "bad magic", file |-> Some(f)]
            : f \in {WithByte(GoodRdb, 1, 83), <<82, 69, 68, 73, 48>>}}
    \cup {[kind |-> "unexpected opcode", file |-> Some(WithByte(GoodRdb, 10, 1))]}
    \cup {[kind |-> "unsupported value type", file |-> Some(WithByte(GoodRdb, 15, 1))]}
    \cup {[kind |-> "length past the end", file |-> Some(WithByte(GoodRdb, i, 32))]
            : i \in {16, 18}}

\* the master starts with --dir and --dbfilename naming one of the files
MasterStart ==
    /\ ~turn.some
    /\ \E f \in SnapshotFiles, checked \in OverflowChecks :
       \E started \in {MasterServerNew(f.file, checked, clock)} :
          /\ turn' = Some([kind |-> f.kind, file |-> f.file, checked |-> checked,
                           started |-> started])
          /\ redis_db' = IF started.k = "ok" THEN started.x.databases[started.x.cur_db_num]
                         ELSE redis_db
    /\ UNCHANGED <<masterVars, out, replicaVars, dbVars, clock, redis_store, served, inbox,
                   closed, conn_buf>>

NextStart == Tick \/ MasterStart

SpecStart == InitStream /\ [][NextStart]_vars

\* C31: with a snapshot file that is missing, truncated or malformed the
\* server does not fail: it starts with the single empty database 0.
C31_UnreadableSnapshotStartsEmpty ==
    (turn.some /\ turn.x.kind # "good") => turn.x.started = Ok(RedisStoreNew)

(***************************************************************************)
(* The two tables of a database.                                           *)
(***************************************************************************)
\* C34: no key is in both the non-expiring and the expiring table; after a
\* SET without PX the key is in the non-expiring table only, with the value
\* set; after a SET with PX it is in the expiring table only, with the value
\* set and the expiry of this SET.
C34_TablesDisjoint ==
    /\ DOMAIN redis_db.nonexpire_table \cap DOMAIN redis_db.expire_table = {}
    /\ (turn.some /\ turn.x.op = "SET") =>
          IF turn.x.px.some
          THEN /\ turn.x.key \notin DOMAIN redis_db.nonexpire_table
               /\ turn.x.key \in DOMAIN redis_db.expire_table
               /\ redis_db.expire_table[turn.x.key] =
                     [value |-> turn.x.value, expiry |-> turn.x.at + turn.x.px.x]
          ELSE /\ turn.x.key \notin DOMAIN redis_db.expire_table
               /\ turn.x.key \in DOMAIN redis_db.nonexpire_table
               /\ redis_db.nonexpire_table[turn.x.key] = turn.x.value

\* a SET without PX has just been applied to a key that had an expiry
C34_Witness ==
    /\ turn.some
    /\ turn.x.op = "SET"
    /\ ~turn.x.px.some
    /\ turn.x.had_expiry
    /\ turn.x.key \in DOMAIN redis_db.nonexpire_table

(***************************************************************************)
(* KEYS: RedisDb::keys (db/mod.rs) behind Command::Keys (master.rs).       *)
(***************************************************************************)
\* RedisDb::keys: the keys of the non-expiring table and then those of the
\* expiring table, each in the order of its HashMap; the set of them here
RedisDbKeys(db) == DOMAIN db.nonexpire_table \cup DOMAIN db.expire_table

\* master.rs 238-244 and store.rs 62-64: Command::Keys on the master
MasterKeys ==
    /\ turn' = Some([op |-> "KEYS", at |-> clock, keys |-> RedisDbKeys(redis_db)])
    /\ UNCHANGED <<masterVars, out, replicaVars, dbVars, clock, redis_db, redis_store, served,
                   inbox, closed, conn_buf>>

NextKeys == Tick \/ MasterSet \/ MasterGet \/ MasterKeys

SpecKeys == InitStream /\ [][NextKeys]_vars

\* C40: every key in the reply of KEYS * is a key for which a GET at the
\* instant of the KEYS returns a value; a key whose expiry has passed is not
\* in the reply, whether or not a GET has removed it.
C40_KeysListsLiveKeys ==
    (turn.some /\ turn.x.op = "KEYS") =>
        \A key \in turn.x.keys : RedisDbGet(redis_db, key, turn.x.at).value.some

(***************************************************************************)
(* The range scan of the trie on its own (db/trie.rs): a trie built by     *)
(* inserting a set of keys, scanned once between two bounds.               *)
(***************************************************************************)
\* the keys inserted and the bounds asked for
ScanKeys == {0, 1, 2, 4, 16, 17, 32, U64_MAX}
MaxScanKeys == 2
ScanBounds == {0, 1, 3, 17, 33, U64_MAX}

\* Trie::new followed by Trie::insert of every key of S, the value of a key
\* being the key
TrieOf(S) == [k \in S |-> k]

\* one call of Trie::get_range_incl with start <= end
TrieScan ==
    /\ ~turn.some
    /\ \E S \in SUBSET ScanKeys, lo \in ScanBounds, hi \in ScanBounds :
          /\ Cardinality(S) <= MaxScanKeys
          /\ lo <= hi
          /\ turn' = Some([op |-> "SCAN", keys |-> S, lo |-> lo, hi |-> hi,
                           res |-> get_range_incl(TrieOf(S), lo, hi)])
    /\ UNCHANGED <<masterVars, out, replicaVars, dbVars, clock, redis_db, redis_store, served,
                   inbox, closed, conn_buf>>

NextTrie == TrieScan

SpecTrie == InitStream /\ [][NextTrie]_vars

\* C32: for bounds lo <= hi the range scan does not fail and returns, in
\* strictly ascending key order, exactly the inserted keys k with
\* lo <= k <= hi.
C32_ScanReturnsTheRange ==
    (turn.some /\ turn.x.op = "SCAN") =>
        /\ turn.x.res.k = "ok"
        /\ \A i \in 1..(Len(turn.x.res.items) - 1) :
              turn.x.res.items[i].key < turn.x.res.items[i + 1].key
        /\ { turn.x.res.items[i].key : i \in 1..Len(turn.x.res.items) } =
              { k \in turn.x.keys : turn.x.lo <= k /\ k <= turn.x.hi }

(***************************************************************************)
(* What the replica writes on its master connection once the handshake is  *)
(* over.                                                                   *)
(***************************************************************************)
\* the frame is a REPLCONF ACK command
IsAckFrame(f) == f.k = "cmd" /\ f.cmd.v = "ReplConf" /\ f.cmd.arg.a = "Ack"

\* C35: the frames the replica has written on its master connection are
\* REPLCONF ACK commands, exactly one for each REPLCONF GETACK * it has
\* processed; processing a SET, a PING or any other command writes nothing.
C35_OneAckPerGetAck ==
    /\ Len(sentAcks["r1"]) = Cardinality(ConsumedGetAcks("r1"))
    /\ \A n \in 1..Len(sentAcks["r1"]) : IsAckFrame(sentAcks["r1"][n])

\* the replica has processed a SET, a PING and a GETACK and has written one
\* frame
C35_Witness ==
    /\ \E i \in FirstCmdPos..rpos["r1"] : IsSetFrame(out["r1"][i])
    /\ \E i \in FirstCmdPos..rpos["r1"] : out["r1"][i] = CmdFrame(Ping)
    /\ Cardinality(ConsumedGetAcks("r1")) = 1
    /\ Len(sentAcks["r1"]) = 1

(***************************************************************************)
(* A client's SET on the master, once.                                     *)
(***************************************************************************)
\* the requests of the client peers that are SET commands
SetRequests ==
    {ArgsToBytes(args) : args \in {a \in ValidRequests \cup {<<B_SET, K_k, <<98>>>>} :
                                      a[1] = B_SET}}

\* C36: a turn of the master's connection handler applies a SET to the store
\* and adds its bytes to the replication offset exactly when the bytes it
\* read are a client's SET request, and then once; a turn whose read returned
\* nothing because the client closed the connection applies and counts
\* nothing.
C36_SetAppliedOnce ==
    (turn.some /\ turn.x.role = "master") =>
        IF turn.x.bytes \in SetRequests
        THEN turn.x.stored /\ turn.x.counted = Len(to_bytes(turn.x.cmd.x))
        ELSE ~turn.x.stored /\ turn.x.counted = 0

(***************************************************************************)
(* The ACK a WAIT counts and the GETACK it answers.                        *)
(***************************************************************************)
\* the SET a client that has since left was acknowledged
AckedSet == Set(K_k, <<97>>, NoneOpt)

\* A master after a replica attached on r1 at offset 0 and one SET of another
\* client was applied, counted, propagated and acknowledged; the replica has
\* not read yet. The clients c1 and c2 have sent nothing so far.
InitWait ==
    /\ pc = [c \in Conns |-> IF c = "r1" THEN "exited" ELSE "read"]
    /\ req = [c \in Conns |-> IF c = "r1" THEN Some(PSync(NoneOpt, NoneOpt)) ELSE NoneOpt]
    /\ nread = [c \in Conns |-> IF c = "r1" THEN 1 ELSE 0]
    /\ store = StoreSet(<<>>, AckedSet.key, AckedSet.value, AckedSet.px)
    /\ commitLog = <<AckedSet>>
    /\ repl_offset = Len(to_bytes(AckedSet))
    /\ repl_conns = <<"r1">>
    /\ replLock = "free"
    /\ connLock = [c \in Conns |-> "free"]
    /\ out = [c \in Conns |-> IF c = "r1"
                              THEN <<RespFrame(SimpleString(FullResyncText)), RdbFrame,
                                     CmdFrame(AckedSet)>>
                              ELSE <<>>]
    /\ iter = [c \in Conns |-> 1]
    /\ master_repl_offset = [c \in Conns |-> 0]
    /\ ack_num = [c \in Conns |-> 0]
    /\ timed_out = [c \in Conns |-> FALSE]
    /\ tasks = [c \in Conns |-> <<>>]
    /\ inPos = [c \in Conns |-> 0]
    /\ InitDb
    /\ InitExt
    /\ InitReplicaPeers

\* the WAITs of the clients and the replica's reads
NextWait ==
    \/ \E c \in Clients :
          \/ WaitOffset(c) \/ WaitSpawn(c) \/ WaitJoin(c) \/ WaitFinish(c) \/ WaitTimeout(c)
          \/ TaskSend(c, "r1") \/ TaskRead(c, "r1")
    \/ ReplicaRead("r1")

SpecWait == InitWait /\ [][NextWait]_vars

\* number of REPLCONF GETACK frames the master has written to connection r
GetAcksWritten(r) == Cardinality({i \in 1..Len(out[r]) : IsGetAckFrame(out[r][i])})

\* C37: when a task of a WAIT reads a reply of shape REPLCONF ACK from a
\* replica, that reply is the replica's answer to the GETACK this task wrote:
\* the replica answers its n-th GETACK with its n-th frame, the task's GETACK
\* is the last one written to the connection, so the frame the task decodes
\* is the one whose number is the number of GETACKs written. It is never the
\* answer to the GETACK of an earlier WAIT that was left unread.
C37_AckAnswersThisWait ==
    [][\A c \in Conns, r \in Replicas :
          (/\ r \in DOMAIN tasks[c]
           /\ tasks[c][r] = "reading"
           /\ r \in DOMAIN tasks'[c]
           /\ tasks'[c][r] = "done_ack")
          => inPos[r] + 1 = GetAcksWritten(r)]_vars

(***************************************************************************)
(* The replica's offset against the master's.                              *)
(***************************************************************************)
\* C38: the byte offset of a replica never exceeds the master's replication
\* offset, whatever SETs and WAITs the clients send.
C38_ReplicaOffsetBelowMaster ==
    \A r \in Replicas : r_offset[r] <= repl_offset

(***************************************************************************)
(* The locks of the master: the mutex of the replica list and the mutex    *)
(* of each replica connection.                                             *)
(***************************************************************************)
\* The runtime keeps polling every task that can make progress, the handler
\* of a PSYNC included, and a timer that has been armed fires.
FairLocks ==
    Init /\ [][Next]_vars /\ \A c \in Conns : WF_vars(HandlerProgress(c) \/ PSyncAttach(c))

\* the list mutex, and the connection mutexes by the name of their connection
ListLock == "repl_conns"
Locks == {ListLock} \cup Replicas

\* who may hold or await a lock: a handler [h |-> c, t |-> "none"] and the
\* task [h |-> c, t |-> r] a WAIT handler c spawned for connection r
Agents == [h : Conns, t : {"none"} \cup Replicas]

\* agent a holds lock l across an await
Holds(a, l) ==
    IF a.t = "none" THEN l = ListLock /\ replLock = a.h
    ELSE l = a.t /\ connLock[a.t] = a.h

\* agent a is at a lock().await for lock l
Wants(a, l) ==
    IF a.t = "none"
    THEN \/ l = ListLock /\ pc[a.h] \in {"set_lock", "psync_attach", "wait_getacks", "wait_count"}
         \/ /\ pc[a.h] = "set_send"
            /\ iter[a.h] <= Len(repl_conns)
            /\ l = repl_conns[iter[a.h]]
    ELSE /\ l = a.t
         /\ a.t \in DOMAIN tasks[a.h]
         /\ tasks[a.h][a.t] = "spawned"

\* a awaits a lock that b holds
WaitsFor(a, b) == a # b /\ \E l \in Locks : Wants(a, l) /\ Holds(b, l)

\* the agents a chain of at most n waits leads to from the agents of S
RECURSIVE WaitChain(_, _)
WaitChain(S, n) ==
    IF n = 0 THEN {}
    ELSE TheOne({ nxt \cup WaitChain(nxt, n - 1)
                  : nxt \in {{b \in Agents : \E a \in S : WaitsFor(a, b)}} })

\* no agent is on a cycle of waits
NoLockCycle == \A a \in Agents : a \notin WaitChain({a}, Cardinality(Locks))

\* handler c, or a task of its WAIT, is at a lock().await
AtLock(c) == \E a \in Agents : a.h = c /\ \E l \in Locks : Wants(a, l)

====
